---- MODULE Spec2Model ----
(***************************************************************************)
(* Model of lammps-reaper: the generation loop (generator.generate_deck),  *)
(* the validation orchestrator (validation.validate_deck) and the two      *)
(* engine-backed levels (validate_l2, validate_l3) with their temporary    *)
(* working directories and engine subprocesses.                            *)
(*                                                                         *)
(* Spec is one call of generate_deck, validations included.  SpecValidate  *)
(* is one call of validate_deck on its own, as the validate command and    *)
(* library users make it, over every deck and every engine installation.   *)
(* SpecFiles is setup_working_directory and cleanup on a small file tree.  *)
(* SpecL0, SpecL1, SpecL3, SpecParse and SpecDeck apply validate_l0,       *)
(* validate_l1, the L3 classification, parse_llm_response and              *)
(* _create_minimal_step_deck to whole texts; SpecProvider is one call of   *)
(* AnthropicProvider.create_message with its retries.                      *)
(*                                                                         *)
(* Texts are represented by the features the code inspects: a script by    *)
(* the number of template placeholders, structural syntax errors and       *)
(* "Negative temperature" warnings it yields; an engine output by its      *)
(* return code and the substrings the parsers look for.  The empty string  *)
(* is the empty sequence <<>> (engine_output) or a script of length 0.     *)
(* Python's None is the empty sequence <<>>, a present value v is <<v>>.   *)
(***************************************************************************)
EXTENDS Integers, Sequences, FiniteSets, TLC

\* ---------------------------------------------------------------- bounds
MaxRetries == 1          \* largest ReaperInput.max_retries explored
MaxFaults  == 1          \* most environment faults (I/O errors, timeouts) in one run
MaxContext == 2          \* longest context_files list handed to setup_working_directory
MaxRows    == 2          \* most rows of a thermo table
MaxRuns    == 2          \* most "Dangerous builds" lines (one per run) in an output
MaxLines   == 2          \* most lines of a text checked for placeholders
MaxL1Lines == 3          \* most lines of a text checked by validate_l1
MaxEntries == 2          \* most entries of an "assumptions" list in a response
MaxDeckLines == 3        \* most lines of a deck rewritten for the L3 run

\* ------------------------------------------------------------- constants
MINIMAL_STEPS == 20      \* l3_physics.MINIMAL_STEPS
L2_TIMEOUT    == 30      \* validate_l2 default timeout (seconds)
L3_TIMEOUT    == 60      \* validate_l3 default timeout (seconds)
THERMO_FREQUENCY == 5    \* l3_physics.THERMO_FREQUENCY
MAX_RETRIES   == 3       \* AnthropicProvider.MAX_RETRIES
BASE_DELAY    == 1       \* AnthropicProvider.BASE_DELAY (seconds)
OUTPUT_LIMIT  == 5000    \* characters of engine output kept in an L2Result / L3Result
EXCERPT_LIMIT == 2000    \* characters of engine output quoted in a fix prompt
LINE_CHARS    == 40      \* width of a line of engine output

\* ----------------------------------------------------------------- texts
EmptyScript == [len |-> 0, templ |-> 0, syn |-> 0, neg |-> 0]

\* decks handed to validate_deck: clean, placeholders left, syntax and physics
\* errors, both
Decks ==
  { [len |-> 1, templ |-> 0, syn |-> 0, neg |-> 0],
    [len |-> 1, templ |-> 2, syn |-> 0, neg |-> 0],
    [len |-> 1, templ |-> 0, syn |-> 1, neg |-> 1],
    [len |-> 1, templ |-> 2, syn |-> 1, neg |-> 0] }

\* non-empty scripts the LLM answers with: clean, or with a syntax and a
\* physics error
Scripts ==
  { [len |-> 1, templ |-> 0, syn |-> 0, neg |-> 0],
    [len |-> 1, templ |-> 0, syn |-> 1, neg |-> 1] }

\* what the engine can print and return when it runs to an exit
\* (chars: the length of the printed text)
L2Outputs ==
  { [rc |-> 0, err |-> FALSE, marker |-> TRUE,  explosion |-> FALSE, nthermo |-> 0, thermo_ok |-> TRUE,
     chars |-> 1200] }
  \cup { [rc |-> 1, err |-> TRUE,  marker |-> FALSE, explosion |-> FALSE, nthermo |-> 0, thermo_ok |-> TRUE,
           chars |-> n] : n \in {800, 6000} }

L3Outputs ==
  { [rc |-> 0, err |-> FALSE, marker |-> TRUE,  explosion |-> FALSE, nthermo |-> 1, thermo_ok |-> TRUE,
     chars |-> 1200],
    [rc |-> 1, err |-> TRUE,  marker |-> TRUE,  explosion |-> TRUE,  nthermo |-> 1, thermo_ok |-> FALSE,
     chars |-> 3000] }

\* what find_lammps_binary can see: <<user path, LAMMPS_BINARY, a default path>>
\* exists and is a file
Probes == { <<u, e, d>> : u \in BOOLEAN, e \in BOOLEAN, d \in BOOLEAN }

\* the installations generate_deck is run on: no engine, or the engine at
\* reaper_input.lammps_binary
Hosts == { <<FALSE, FALSE, FALSE>>, <<TRUE, FALSE, FALSE>> }

Outputs(level) == IF level = "L2" THEN L2Outputs ELSE L3Outputs

\* ReaperInput: the fields generate_deck branches on
Inputs ==
  [ max_retries : 0..MaxRetries,
    enable_iterative_fixing : BOOLEAN,
    has_output_path : BOOLEAN ]

VARIABLES
  inp,            \* reaper_input
  gpc,            \* position in generate_deck
  attempt_num,    \* loop variable of the generation loop
  response,       \* <<r>>: text returned by provider.create_message
  deck_content, validation, attempts, errors, current_prompt,
  output_path,    \* local output_path of generate_deck: set or None
  output_file,    \* content of the file at reaper_input.output_path
  result,         \* <<ReaperOutput>> once generate_deck returned
  vpc,            \* position in validate_deck
  content,        \* validate_deck's argument
  issues, l0_result, l1_result, l2_result, l3_result,
  vresult,        \* <<ValidationResult>> once validate_deck returned
  epc,            \* position in validate_l2 / validate_l3
  binary, working_dir, eresult,
  env,            \* which candidate binaries exist: <<user, LAMMPS_BINARY, default>>
  dirs,           \* temporary directories that exist
  procs,          \* engine subprocesses alive
  ran,            \* levels started by the current validate_deck call
  how,            \* how the current engine call ended
  spawned,        \* subprocesses started by the current engine call
  llmCalls,       \* provider.create_message invocations so far
  llmOutcome,     \* how the latest create_message call ended
  valRuns,        \* validate_deck invocations so far
  lastOverall,    \* <<overall_passed>> of the latest validate_deck return
  faults,         \* environment faults so far
  fpc,            \* position in the working-directory life cycle
  disk,           \* source files that exist
  context_files,  \* setup_working_directory's argument: a list of paths
  referenced_files, \* parse_file_references(deck_content)
  wdir,           \* the working directory: <<>> if missing, else <<the files written,
                  \* by their paths relative to it>>
  wdir0,          \* the working directory when the call in progress began
  pending,        \* referenced files the first copy loop has not visited yet
  cf_index,       \* context files the second copy loop has visited
  ppc,            \* position of a check called on its own
  subject,        \* its argument
  verdict,        \* <<its result>>
  attempt,        \* loop variable of create_message's retry loop
  last_exception, \* create_message's last_exception: <<>> or <<e>>
  api_log,        \* outcomes of the API calls of the create_message in progress
  sleeps,         \* the delays it has slept, in order
  api_calls       \* API calls made since generate_deck was entered

gvars == <<inp, gpc, attempt_num, response, deck_content, validation, attempts,
           errors, current_prompt, output_path, output_file, result>>
vvars == <<vpc, content, issues, l0_result, l1_result, l2_result, l3_result, vresult>>
evars == <<epc, binary, working_dir, eresult>>
fvars == <<env, dirs, procs>>
hvars == <<ran, how, spawned, llmCalls, llmOutcome, valRuns, lastOverall, faults>>
uvars == <<fpc, disk, context_files, referenced_files, wdir, wdir0, pending, cf_index>>
pvars == <<attempt, last_exception, api_log, sleeps, api_calls>>
cvars == <<ppc, subject, verdict, pvars>>
vars  == <<gvars, vvars, evars, fvars, hvars, uvars, cvars>>

Truthy(script) == script.len > 0

\* ------------------------------------------------------------- schemas
Issue(level, a, b) == [level |-> level, a |-> a, b |-> b]

Err(kind, k) == [kind |-> kind, attempt |-> k]

\* an attempt recorded as already carrying a fix note
GenerationAttempt_with_fix(n, deck, passed, errs) ==
  [attempt_number |-> n, deck_content |-> deck, validation_passed |-> passed,
   errors |-> errs, fixes_applied |-> <<"Attempting fix">>]

GenerationAttempt(n, deck, passed, errs) ==
  [attempt_number |-> n, deck_content |-> deck, validation_passed |-> passed,
   errors |-> errs, fixes_applied |-> <<>>]

\* str.lower() on the strings that occur
Lower(tok) ==
  CASE tok = "REAL" -> "real"
    [] tok = "UNITS" -> "units"
    [] tok = "RUN" -> "run"
    [] OTHER -> tok

\* ------------------------------------------------ the response of the LLM
\* The text inside a ```json fence as json.loads reads it: not JSON at all, or
\* a JSON value.  An object is its list of <<key, value>> pairs as written.
JInvalid == [t |-> "invalid"]
JNull == [t |-> "null"]
JNumber == [t |-> "number"]
JString(s) == [t |-> "string", s |-> s]
JArray(items) == [t |-> "array", items |-> items]
JObject(fields) == [t |-> "object", fields |-> fields]

\* the blocks explored: every kind of top-level value; objects with every
\* kind of "assumptions" member; lists of up to MaxEntries entries of every
\* kind, objects with every kind of "category" among them
JsonBlocks ==
  LET categories  == { JString("units"), JString("UNITS"), JString("zzz"), JNumber, JNull }
      entries     == { JString("x"), JNull, JObject(<< >>) }
                     \cup { JObject(<< <<"category", c>> >>) : c \in categories }
      lists       == UNION { { JArray(f) : f \in [1..n -> entries] } : n \in 0..MaxEntries }
      assumptions == { JNull, JNumber, JString(""), JString("x"), JObject(<< >>),
                       JObject(<< <<"k", JNumber>> >>) } \cup lists
  IN { JInvalid, JNull, JNumber, JString("x"), JString("my assumptions"),
       JArray(<< JNumber >>), JArray(<< JString("assumptions") >>),
       JObject(<< <<"k", JNumber>> >>) }
     \cup { JObject(<< <<"assumptions", a>> >>) : a \in assumptions }

\* AssumptionCategory values
AssumptionCategory ==
  { "force_field", "units", "parameters", "topology", "simulation", "output", "other" }

\* dict lookup: the value of the last pair with the key, None (<<>>) if absent
Get(fields, key) ==
  LET at == { i \in 1..Len(fields) : fields[i][1] = key }
  IN IF at = {} THEN << >>
     ELSE << fields[CHOOSE i \in at : \A k \in at : i >= k][2] >>

\* "assumptions" in json_data: <<TRUE>>, <<FALSE>> or a TypeError (<<>>); for
\* a string it is the substring test, on the strings that occur
ContainsAssumptions(v) ==
  CASE v.t = "object" -> << Get(v.fields, "assumptions") # << >> >>
    [] v.t = "array"  -> << \E i \in 1..Len(v.items) : v.items[i] = JString("assumptions") >>
    [] v.t = "string" -> << v.s \in { "assumptions", "my assumptions" } >>
    [] OTHER          -> << >>

\* for a in json_data["assumptions"]: the values iterated; a dict yields its
\* keys and a string its characters (the strings iterated are "" and "x"); a
\* TypeError is <<>>
Iterate(v) ==
  CASE v.t = "array"  -> << v.items >>
    [] v.t = "object" -> << [i \in 1..Len(v.fields) |-> JString(v.fields[i][1])] >>
    [] v.t = "string" -> << IF v.s = "" THEN << >> ELSE << JString(v.s) >> >>
    [] OTHER          -> << >>

\* the loop body for one entry: a.get("category", "other").lower() matched
\* against the category values; an AttributeError when the entry has no get or
\* the category no lower
\* The loop stops at the first exception.
RECURSIVE ReadAssumptions(_, _, _)
ReadAssumptions(entries, i, acc) ==
  IF i > Len(entries) THEN [raised |-> << >>, assumptions |-> acc]
  ELSE LET a == entries[i]
           c == IF a.t = "object" THEN Get(a.fields, "category") ELSE << >>
       IN IF a.t # "object" \/ (c # << >> /\ c[1].t # "string")
          THEN [raised |-> << "AttributeError" >>, assumptions |-> acc]
          ELSE ReadAssumptions(entries, i + 1,
                 Append(acc, IF c # << >> /\ Lower(c[1].s) \in AssumptionCategory
                             THEN Lower(c[1].s) ELSE "other"))

\* the try block: json.loads, the membership test, the loop.  JSONDecodeError
\* and KeyError are caught, every other exception leaves parse_llm_response
ExtractAssumptions(json_match) ==
  IF json_match = << >> \/ json_match[1] = JInvalid
  THEN [raised |-> << >>, assumptions |-> << >>]
  ELSE LET json_data == json_match[1]
           has == ContainsAssumptions(json_data)
       IN IF has = << >> THEN [raised |-> << "TypeError" >>, assumptions |-> << >>]
          ELSE IF ~has[1] THEN [raised |-> << >>, assumptions |-> << >>]
          ELSE IF json_data.t # "object"
          THEN [raised |-> << "TypeError" >>, assumptions |-> << >>]
          ELSE LET entries == Iterate(Get(json_data.fields, "assumptions")[1])
               IN IF entries = << >>
                  THEN [raised |-> << "TypeError" >>, assumptions |-> << >>]
                  ELSE ReadAssumptions(entries[1], 1, << >>)

\* --------------------------------------------------------------- L0, L1
validate_l0(text) ==
  [passed |-> text.templ = 0, unresolved_count |-> text.templ]

validate_l1(text) ==
  [passed |-> text.syn = 0 /\ text.neg = 0,
   syntax_errors |-> text.syn, negative |-> text.neg]

\* ------------------------------------------------- engine-backed levels
Detail(msg, arg) == [msg |-> msg, arg |-> arg]

Timeout(level) == IF level = "L2" THEN L2_TIMEOUT ELSE L3_TIMEOUT

\* find_lammps_binary falling back to the first default path unchecked
find_lammps_binary_unchecked(user_path, env_path, default_path) ==
  IF user_path THEN "user" ELSE IF env_path THEN "env" ELSE "default"

\* l2_engine.find_lammps_binary: user path, then LAMMPS_BINARY, then defaults
find_lammps_binary(user_path, env_path, default_path) ==
  IF user_path THEN "user" ELSE IF env_path THEN "env"
  ELSE IF default_path THEN "default" ELSE "none"

\* _parse_lammps_output: one "LAMMPS Error" issue per matching line, a generic
\* return-code issue when the code is non-zero and no issue holds "Error"
parse_lammps_output(out) ==
  (IF out.err THEN <<Detail("LAMMPS Error", "line")>> ELSE <<>>)
  \o (IF out.rc # 0 /\ ~out.err THEN <<Detail("LAMMPS exited with return code", out.rc)>> ELSE <<>>)

\* result returned when find_lammps_binary gave None
SkipResult(level) ==
  IF level = "L2"
  THEN [passed |-> TRUE, engine_output |-> <<>>, return_code |-> -1,
        details |-> <<Detail("LAMMPS binary not found - L2 validation skipped", "")>>]
  ELSE [passed |-> TRUE, engine_output |-> <<>>, return_code |-> -1,
        steps_run |-> 0, thermo_data |-> 0,
        thermo_warnings |-> <<Detail("LAMMPS binary not found - L3 validation skipped", "")>>,
        details |-> <<Detail("LAMMPS binary not found - L3 validation skipped", "")>>]

\* a timeout reported like a skipped validation
TimeoutResult_as_skip(level) == SkipResult(level)

\* except subprocess.TimeoutExpired
TimeoutResult(level) ==
  IF level = "L2"
  THEN [passed |-> FALSE, engine_output |-> <<>>, return_code |-> -1,
        details |-> <<Detail("LAMMPS execution timed out after", Timeout(level))>>]
  ELSE [passed |-> FALSE, engine_output |-> <<>>, return_code |-> -1,
        steps_run |-> 0, thermo_data |-> 0,
        thermo_warnings |-> <<Detail("Execution timed out after", Timeout(level))>>,
        details |-> <<Detail("LAMMPS execution timed out after", Timeout(level))>>]

\* except Exception as e
ErrorResult(level, e) ==
  IF level = "L2"
  THEN [passed |-> FALSE, engine_output |-> <<>>, return_code |-> -1,
        details |-> <<Detail("Error running LAMMPS", e)>>]
  ELSE [passed |-> FALSE, engine_output |-> <<>>, return_code |-> -1,
        steps_run |-> 0, thermo_data |-> 0,
        thermo_warnings |-> <<Detail("Error running LAMMPS", e)>>,
        details |-> <<Detail("Error running LAMMPS", e)>>]

\* A text cut from an engine output is the output and the range of its
\* characters kept, [from, to).
Whole(out) == [of |-> out, from |-> 0, to |-> out.chars]

\* Python's text[:n]
First(text, n) ==
  [text EXCEPT !.to = IF text.from + n < text.to THEN text.from + n ELSE text.to]

\* the engine ran to an exit: classification of its output
L2Completed(out) ==
  LET iss == parse_lammps_output(out) IN
  [passed |-> out.rc = 0 /\ ~(\E i \in 1..Len(iss) : iss[i].msg = "LAMMPS Error"),
   engine_output |-> <<First(Whole(out), OUTPUT_LIMIT)>>, return_code |-> out.rc,
   details |-> IF iss # <<>> THEN iss ELSE <<Detail("LAMMPS validation passed", "")>>]

L3Completed(out) ==
  LET iss == parse_lammps_output(out)
      completed_ok == out.rc = 0 \/ out.marker
      has_explosion == out.explosion
      thermo_passed == out.thermo_ok
  IN
  [passed |-> completed_ok /\ ~has_explosion /\ thermo_passed,
   engine_output |-> <<First(Whole(out), OUTPUT_LIMIT)>>, return_code |-> out.rc,
   steps_run |-> MINIMAL_STEPS, thermo_data |-> out.nthermo,
   thermo_warnings |-> IF out.nthermo = 0
                       THEN <<Detail("No thermodynamic data found in output", "")>>
                       ELSE IF out.thermo_ok
                            THEN <<Detail("Thermodynamic sanity checks passed", "")>>
                            ELSE <<Detail("simulation exploded", "")>>,
   details |-> iss
     \o (IF completed_ok /\ ~has_explosion
         THEN <<Detail("LAMMPS execution completed", MINIMAL_STEPS)>> ELSE <<>>)
     \o (IF has_explosion
         THEN <<Detail("Simulation explosion detected in LAMMPS output", "")>> ELSE <<>>)
     \o (IF out.nthermo > 0 THEN <<Detail("Parsed thermo data points", out.nthermo)>> ELSE <<>>)]

Completed(level, out) == IF level = "L2" THEN L2Completed(out) ELSE L3Completed(out)

Level == IF vpc = "l2" THEN "L2" ELSE "L3"

\* tempfile.mkdtemp returns a name that does not exist yet
FreshDir == CHOOSE d \in 1..(Cardinality(dirs) + 1) : d \notin dirs

\* exceptions of the set-up step (setup_working_directory with context files,
\* deck_path.write_text without): the message str(e) of the OSError
SetupFailures == {"OSError"}

\* validate_l2 / validate_l3, lines up to the skip return
FindBinary ==
  /\ vpc \in {"l2", "l3"} /\ epc = "idle"
  /\ binary' = find_lammps_binary(env[1], env[2], env[3])
  /\ ran' = Append(ran, Level)
  /\ IF binary' = "none"
     THEN /\ eresult' = <<SkipResult(Level)>>
          /\ how' = "skip"
          /\ epc' = "ret"
     ELSE /\ eresult' = <<>>
          /\ how' = "none"
          /\ epc' = "mkdtemp"
  /\ spawned' = 0
  /\ UNCHANGED <<gvars, vvars, working_dir, fvars, llmCalls, llmOutcome, valRuns, lastOverall, faults>>
  /\ UNCHANGED <<uvars, cvars>>

\* working_dir = Path(tempfile.mkdtemp(...)), before the try block
Mkdtemp ==
  /\ epc = "mkdtemp"
  /\ \E ok \in BOOLEAN :
       /\ ok \/ faults < MaxFaults
       /\ faults' = IF ok THEN faults ELSE faults + 1
       /\ IF ok
          THEN /\ working_dir' = FreshDir
               /\ dirs' = dirs \cup {FreshDir}
               /\ epc' = "setup"
               /\ how' = how
          ELSE /\ epc' = "raise"
               /\ how' = "raise"
               /\ UNCHANGED <<working_dir, dirs>>
  /\ UNCHANGED <<gvars, vvars, binary, eresult, env, procs,
                 ran, spawned, llmCalls, llmOutcome, valRuns, lastOverall>>
  /\ UNCHANGED <<uvars, cvars>>

\* try: setup_working_directory(...) or deck_path.write_text(...)
SetupDeck ==
  /\ epc = "setup"
  /\ \/ /\ epc' = "run"
        /\ UNCHANGED <<eresult, how, faults>>
     \/ \E e \in SetupFailures :
          /\ faults < MaxFaults
          /\ faults' = faults + 1
          /\ eresult' = <<ErrorResult(Level, e)>>
          /\ how' = "error"
          /\ epc' = "cleanup"
  /\ UNCHANGED <<gvars, vvars, binary, working_dir, fvars,
                 ran, spawned, llmCalls, llmOutcome, valRuns, lastOverall>>
  /\ UNCHANGED <<uvars, cvars>>

\* subprocess.run(...): the child is started, or starting it raises
RunEngine ==
  /\ epc = "run"
  /\ \/ /\ procs' = procs + 1
        /\ spawned' = spawned + 1
        /\ epc' = "running"
        /\ UNCHANGED <<eresult, how, faults>>
     \/ /\ faults < MaxFaults
        /\ faults' = faults + 1
        /\ eresult' = <<ErrorResult(Level, "OSError")>>
        /\ how' = "error"
        /\ epc' = "cleanup"
        /\ UNCHANGED <<procs, spawned>>
  /\ UNCHANGED <<gvars, vvars, binary, working_dir, env, dirs,
                 ran, llmCalls, llmOutcome, valRuns, lastOverall>>
  /\ UNCHANGED <<uvars, cvars>>

\* the child exits within the timeout; its output is classified
EngineExit ==
  /\ epc = "running"
  /\ \E out \in Outputs(Level) : eresult' = <<Completed(Level, out)>>
  /\ procs' = procs - 1
  /\ how' = "exit"
  /\ epc' = "cleanup"
  /\ UNCHANGED <<gvars, vvars, binary, working_dir, env, dirs,
                 ran, spawned, llmCalls, llmOutcome, valRuns, lastOverall, faults>>
  /\ UNCHANGED <<uvars, cvars>>

\* the timeout expires: subprocess.run kills the child and raises TimeoutExpired
EngineTimeout ==
  /\ epc = "running"
  /\ faults < MaxFaults
  /\ faults' = faults + 1
  /\ eresult' = <<TimeoutResult(Level)>>
  /\ procs' = procs - 1
  /\ how' = "timeout"
  /\ epc' = "cleanup"
  /\ UNCHANGED <<gvars, vvars, binary, working_dir, env, dirs,
                 ran, spawned, llmCalls, llmOutcome, valRuns, lastOverall>>
  /\ UNCHANGED <<uvars, cvars>>

\* file_utils.cleanup_working_directory(working_dir), keep_outputs = False:
\* shutil.rmtree removes the directory, or raises OSError, which is swallowed
cleanup_working_directory(ds, wd, rmtree_ok) ==
  IF wd \notin ds THEN ds
  ELSE IF rmtree_ok THEN ds \ {wd} ELSE ds

\* finally: cleanup_working_directory(working_dir)
Cleanup ==
  /\ epc = "cleanup"
  /\ \E rmtree_ok \in BOOLEAN :
       /\ rmtree_ok \/ faults < MaxFaults
       /\ dirs' = cleanup_working_directory(dirs, working_dir, rmtree_ok)
       /\ faults' = IF rmtree_ok THEN faults ELSE faults + 1
  /\ epc' = IF how = "interrupt" THEN "raise" ELSE "ret"
  /\ UNCHANGED <<gvars, vvars, binary, working_dir, eresult, env, procs,
                 ran, how, spawned, llmCalls, llmOutcome, valRuns, lastOverall>>
  /\ UNCHANGED <<uvars, cvars>>

\* ----------------------------------------------------------- validate_deck
\* overall pass that forgets L3
overall_passed_no_l3(l0, l1, l2, l3) == l0.passed /\ l1.passed /\ l2.passed

\* overall pass requires L0, L1, L2 and L3 to pass
overall_passed(l0, l1, l2, l3) == l0.passed /\ l1.passed /\ l2.passed /\ l3.passed

AppendIf(cond, seq, e) == IF cond THEN Append(seq, e) ELSE seq

\* l0_result = validate_l0(content); if not passed: issues.append("L0: ...")
ValidateL0 ==
  /\ vpc = "l0"
  /\ LET r == validate_l0(content) IN
       /\ l0_result' = <<r>>
       /\ issues' = AppendIf(~r.passed, issues, Issue("L0", r.unresolved_count, 0))
  /\ ran' = Append(ran, "L0")
  /\ vpc' = "l1"
  /\ UNCHANGED <<gvars, content, l1_result, l2_result, l3_result, vresult, evars, fvars,
                 how, spawned, llmCalls, llmOutcome, valRuns, lastOverall, faults>>
  /\ UNCHANGED <<uvars, cvars>>

\* l1_result = validate_l1(content); if not passed: issues.append("L1: ...")
ValidateL1 ==
  /\ vpc = "l1"
  /\ LET r == validate_l1(content) IN
       /\ l1_result' = <<r>>
       /\ issues' = AppendIf(~r.passed, issues, Issue("L1", r.syntax_errors, r.negative))
  /\ ran' = Append(ran, "L1")
  /\ vpc' = "l2"
  /\ UNCHANGED <<gvars, content, l0_result, l2_result, l3_result, vresult, evars, fvars,
                 how, spawned, llmCalls, llmOutcome, valRuns, lastOverall, faults>>
  /\ UNCHANGED <<uvars, cvars>>

\* validate_l2 / validate_l3 returns (after its finally block) into validate_deck,
\* which appends the level's summary issue when the level failed
EngineReturn ==
  /\ epc = "ret"
  /\ LET r == eresult[1] IN
       IF vpc = "l2"
       THEN /\ l2_result' = <<r>>
            /\ issues' = AppendIf(~r.passed, issues, Issue("L2", 0, 0))
            /\ vpc' = "l3"
            /\ UNCHANGED l3_result
       ELSE /\ l3_result' = <<r>>
            /\ issues' = AppendIf(~r.passed, issues, Issue("L3", 0, 0))
            /\ vpc' = "agg"
            /\ UNCHANGED l2_result
  /\ epc' = "idle" /\ binary' = "none"
  /\ working_dir' = 0 /\ eresult' = <<>>
  /\ how' = "none" /\ spawned' = 0
  /\ UNCHANGED <<gvars, content, l0_result, l1_result, vresult, fvars, ran,
                 llmCalls, llmOutcome, valRuns, lastOverall, faults>>
  /\ UNCHANGED <<uvars, cvars>>

\* an exception leaves validate_l2 / validate_l3: validate_deck has no handler
\* around the call and unwinds too
EngineRaise ==
  /\ epc = "raise"
  /\ epc' = "idle" /\ binary' = "none"
  /\ working_dir' = 0 /\ eresult' = <<>>
  /\ vpc' = "raised"
  /\ UNCHANGED <<gvars, content, issues, l0_result, l1_result, l2_result, l3_result,
                 vresult, fvars, hvars>>
  /\ UNCHANGED <<uvars, cvars>>

\* overall_passed = ...; return ValidationResult(...)
Aggregate ==
  /\ vpc = "agg"
  /\ LET l0 == l0_result[1]
         l1 == l1_result[1]
         l2 == l2_result[1]
         l3 == l3_result[1]
         v  == [overall_passed |-> overall_passed(l0, l1, l2, l3),
                l0 |-> l0, l1 |-> l1, l2 |-> l2, l3 |-> l3, issues |-> issues]
     IN /\ vresult' = <<v>>
        /\ lastOverall' = <<v.overall_passed>>
  /\ vpc' = "done"
  /\ issues' = <<>>
  /\ l0_result' = <<>> /\ l1_result' = <<>> /\ l2_result' = <<>> /\ l3_result' = <<>>
  /\ UNCHANGED <<gvars, content, evars, fvars, ran, how, spawned,
                 llmCalls, llmOutcome, valRuns, faults>>
  /\ UNCHANGED <<uvars, cvars>>

\* ----------------------------------------------------------- generate_deck
\* max_attempts that ignores enable_iterative_fixing
max_attempts_no_flag(i) == i.max_retries + 1

\* max_attempts = max_retries + 1 if enable_iterative_fixing else 1
max_attempts(i) == IF i.enable_iterative_fixing THEN i.max_retries + 1 ELSE 1

\* an empty script ends the loop instead of moving to the next iteration
Continue_as_break(k) == gpc' = "write" /\ attempt_num' = k

\* the loop's continue: next iteration, or the loop is over
Continue(k) ==
  IF k < max_attempts(inp)
  THEN gpc' = "call_llm" /\ attempt_num' = k + 1
  ELSE gpc' = "write" /\ attempt_num' = k

ReaperOutput(success, deck, path, val, errs, atts, total) ==
  [success |-> success, deck_content |-> deck, output_path |-> path,
   validation |-> val, errors |-> errs, attempts |-> atts, total_attempts |-> total]

\* parse_llm_response: the assumptions of the ```json block, then the script
\* (r.script: the text from the script marker, else after the block, else the
\* whole response, cleaned); an exception of the first part leaves the function
parse_llm_response(r) ==
  LET a == ExtractAssumptions(r.json)
  IN [raised |-> a.raised, script |-> r.script, assumptions |-> a.assumptions]

\* a provider failure reported as a success
ProviderFailure_as_success ==
  ReaperOutput(TRUE, EmptyScript, FALSE, <<>>,
               <<Err("Failed to initialize provider", 0)>>, <<>>, 1)

\* except Exception as e: return ReaperOutput(success=False, ...);
\* attempts and total_attempts keep the dataclass defaults [] and 1
ProviderFailure ==
  ReaperOutput(FALSE, EmptyScript, FALSE, <<>>,
               <<Err("Failed to initialize provider", 0)>>, <<>>, 1)

\* provider = AnthropicProvider(): raises without a credential
ProviderInit ==
  /\ gpc = "init"
  /\ \E credential \in BOOLEAN :
       IF credential
       THEN /\ IF max_attempts(inp) >= 1
               THEN gpc' = "call_llm" /\ attempt_num' = 1
               ELSE gpc' = "write" /\ attempt_num' = attempt_num
            /\ UNCHANGED result
       ELSE /\ result' = <<ProviderFailure>>
            /\ gpc' = "done"
            /\ UNCHANGED attempt_num
  /\ UNCHANGED <<inp, response, deck_content, validation, attempts, errors,
                 current_prompt, output_path, output_file,
                 vvars, evars, fvars, hvars>>
  /\ UNCHANGED <<uvars, cvars>>

\* an LLM error that moves on to the next iteration instead of breaking
llm_error_continue(k) ==
  IF k < max_attempts(inp)
  THEN gpc' = "call_llm" /\ attempt_num' = k + 1
  ELSE gpc' = "write" /\ attempt_num' = k

\* except Exception as e: errors.append(...); break
llm_error_exit(k) == gpc' = "write" /\ attempt_num' = k

\* what the LLM answers in a generation: a script or none, with no ```json
\* block or with one that holds a bare number
LLMResponses == [ script : Scripts \cup {EmptyScript}, json : { << >>, << JNumber >> } ]

\* response = await provider.create_message(...); on Exception: record, break
CreateMessage ==
  /\ gpc = "call_llm"
  /\ llmCalls' = llmCalls + 1
  /\ \/ /\ llmOutcome' = "raise"
        /\ errors' = Append(errors, Err("LLM API error", attempt_num))
        /\ llm_error_exit(attempt_num)
        /\ UNCHANGED response
     \/ \E r \in LLMResponses :
          /\ llmOutcome' = "ok"
          /\ response' = <<r>>
          /\ gpc' = "parse"
          /\ UNCHANGED <<errors, attempt_num>>
  /\ UNCHANGED <<inp, deck_content, validation, attempts,
                 current_prompt, output_path, output_file, result,
                 vvars, evars, fvars, ran, how, spawned, valRuns, lastOverall, faults>>
  /\ UNCHANGED <<uvars, cvars>>

\* deck_content, assumptions = parse_llm_response(response), outside any try:
\* an exception leaves generate_deck; empty: record an error and continue;
\* otherwise call validate_deck
ParseResponse ==
  /\ gpc = "parse"
  /\ response' = <<>>
  /\ IF parse_llm_response(response[1]).raised # << >>
     THEN /\ gpc' = "raised"
          /\ UNCHANGED <<deck_content, errors, attempt_num, vpc, content, ran, valRuns>>
     ELSE /\ deck_content' = parse_llm_response(response[1]).script
          /\ IF ~Truthy(deck_content')
             THEN /\ errors' = Append(errors, Err("LLM returned empty response", attempt_num))
                  /\ Continue(attempt_num)
                  /\ UNCHANGED <<vpc, content, ran, valRuns>>
             ELSE /\ gpc' = "validating"
                  /\ vpc' = "l0"
                  /\ content' = deck_content'
                  /\ ran' = <<>>
                  /\ valRuns' = valRuns + 1
                  /\ UNCHANGED <<errors, attempt_num>>
  /\ UNCHANGED <<inp, validation, attempts, current_prompt, output_path,
                 output_file, result, issues, l0_result, l1_result, l2_result,
                 l3_result, vresult, evars, fvars, how, spawned, llmCalls, llmOutcome,
                 lastOverall, faults>>
  /\ UNCHANGED <<uvars, cvars>>

\* engine output quoted in the fix prompt: L2's if L2 failed, else L3's
fix_lammps_output(v) ==
  LET excerpt(engine_output) ==
        IF engine_output = <<>> THEN <<>> ELSE <<First(engine_output[1], EXCERPT_LIMIT)>>
  IN IF ~v.l2.passed THEN excerpt(v.l2.engine_output)
     ELSE IF ~v.l3.passed THEN excerpt(v.l3.engine_output)
     ELSE <<>>

\* an exception out of validate_deck: generate_deck catches only ImportError
\* and AttributeError around the call, anything else leaves generate_deck
ValidationRaises ==
  /\ gpc = "validating" /\ vpc = "raised"
  /\ gpc' = IF how = "interrupt" THEN "cancelled" ELSE "raised"
  /\ UNCHANGED <<inp, attempt_num, response, deck_content, validation, attempts,
                 errors, current_prompt, output_path, output_file, result,
                 vvars, evars, fvars, hvars>>
  /\ UNCHANGED <<uvars, cvars>>

\* the loop going on after a validation that passed
passed_break_never(v) == FALSE

\* if validation.overall_passed: break
passed_break(v) == v.overall_passed

\* validation = run_validation(...) returned: record the attempt; stop on
\* success, without fixing, or when exhausted; otherwise build the fix prompt
\* and note the fix on the last attempt
RecordAttempt ==
  /\ gpc = "validating" /\ vpc = "done"
  /\ validation' = vresult
  /\ vresult' = <<>> /\ vpc' = "idle" /\ content' = EmptyScript
  /\ LET v == vresult[1]
         a == GenerationAttempt(attempt_num, deck_content, v.overall_passed,
                                IF ~v.overall_passed THEN v.issues ELSE <<>>)
     IN IF passed_break(v)
        THEN /\ attempts' = Append(attempts, a)
             /\ gpc' = "write"
             /\ UNCHANGED <<attempt_num, current_prompt>>
        ELSE IF ~inp.enable_iterative_fixing \/ attempt_num >= max_attempts(inp)
        THEN /\ attempts' = Append(attempts, a)
             /\ gpc' = "write"
             /\ UNCHANGED <<attempt_num, current_prompt>>
        ELSE /\ current_prompt' = [kind |-> "fix", errors |-> v.issues,
                                   lammps_output |-> fix_lammps_output(v)]
             /\ attempts' = Append(attempts,
                               [a EXCEPT !.fixes_applied = <<"Attempting fix">>])
             /\ attempt_num' = attempt_num + 1
             /\ gpc' = "call_llm"
  /\ UNCHANGED <<inp, response, deck_content, errors, output_path, output_file, result,
                 issues, l0_result, l1_result, l2_result, l3_result,
                 evars, fvars, hvars>>
  /\ UNCHANGED <<uvars, cvars>>

\* write the deck to output_path if one was given and a script exists
WriteOutput ==
  /\ gpc = "write"
  /\ IF inp.has_output_path /\ Truthy(deck_content)
     THEN \/ /\ output_file' = <<deck_content>>
             /\ output_path' = TRUE
             /\ UNCHANGED errors
          \/ /\ errors' = Append(errors, Err("Failed to write output file", 0))
             /\ UNCHANGED <<output_file, output_path>>
     ELSE UNCHANGED <<output_file, output_path, errors>>
  /\ gpc' = "return"
  /\ UNCHANGED <<inp, attempt_num, response, deck_content, validation, attempts,
                 current_prompt, result, vvars, evars, fvars, hvars>>
  /\ UNCHANGED <<uvars, cvars>>

\* success as soon as some validation result exists
success_of_any(val, errs, deck) == val # <<>>

\* success = validation.overall_passed if validation else False;
\* forced False when there are errors and no deck
success_of(val, errs, deck) ==
  IF errs # <<>> /\ ~Truthy(deck) THEN FALSE
  ELSE IF val # <<>> THEN val[1].overall_passed ELSE FALSE

ReturnResult ==
  /\ gpc = "return"
  /\ result' = <<ReaperOutput(success_of(validation, errors, deck_content),
                              deck_content, output_path, validation, errors,
                              attempts, Len(attempts))>>
  /\ gpc' = "done"
  /\ UNCHANGED <<inp, attempt_num, response, deck_content, validation, attempts,
                 errors, current_prompt, output_path, output_file,
                 vvars, evars, fvars, hvars>>
  /\ UNCHANGED <<uvars, cvars>>

\* what an interrupted write_text has put into the file: a proper prefix of the
\* text, which for a one-unit script is the empty text
Prefix(text) == EmptyScript

\* KeyboardInterrupt / cancellation while generate_deck is blocked: in
\* create_message, in subprocess.run (which kills the child and re-raises; the
\* finally block of validate_l2 / validate_l3 runs), or in write_text (before
\* or after the file was opened for writing).  No handler in generate_deck,
\* validate_deck, validate_l2 or validate_l3 catches it.
Interrupt ==
  /\ faults < MaxFaults
  /\ faults' = faults + 1
  /\ \/ /\ gpc = "call_llm"
        /\ llmCalls' = llmCalls + 1
        /\ llmOutcome' = "interrupt"
        /\ gpc' = "cancelled"
        /\ UNCHANGED <<epc, procs, how, output_file>>
     \/ /\ gpc = "validating" /\ epc = "running"
        /\ procs' = procs - 1
        /\ how' = "interrupt"
        /\ epc' = "cleanup"
        /\ UNCHANGED <<gpc, llmCalls, llmOutcome, output_file>>
     \/ /\ gpc = "write" /\ inp.has_output_path /\ Truthy(deck_content)
        /\ \E opened \in BOOLEAN :
             output_file' = IF opened THEN <<Prefix(deck_content)>> ELSE output_file
        /\ gpc' = "cancelled"
        /\ UNCHANGED <<epc, procs, how, llmCalls, llmOutcome>>
  /\ UNCHANGED <<inp, attempt_num, response, deck_content, validation, attempts,
                 errors, current_prompt, output_path, result, vvars,
                 binary, working_dir, eresult, env, dirs,
                 ran, spawned, valRuns, lastOverall>>
  /\ UNCHANGED <<uvars, cvars>>

\* ------------------------------------------------------------- file_utils
\* A path is the sequence of its components, an absolute one starting with "/".
\* A file's content is named by where it came from.
Sources == { <<"/", "a", "data.txt">>, <<"/", "b", "data.txt">>, <<"/", "a", "input.lammps">> }

\* file references a script can hold
Refs ==
  { <<"data.txt">>, <<"b", "data.txt">>, <<"input.lammps">>, <<"/", "a", "data.txt">>,
    <<"..", "data.txt">> }

DeckName == "input.lammps"

ContentOf(path) == [origin |-> path]

DeckText == [origin |-> <<"deck">>]

OldText == [origin |-> <<"old">>]

EngineText == [origin |-> <<"engine">>]

\* lists of distinct paths, up to MaxContext long
ContextLists ==
  { l \in UNION { [1..n -> Sources] : n \in 0..MaxContext } :
      \A i \in 1..Len(l), j \in 1..Len(l) : i # j => l[i] # l[j] }

\* Path.name, Path.is_absolute, Path.parent
Name(path) == path[Len(path)]

is_absolute(path) == path[1] = "/"

Parent(path) == SubSeq(path, 1, Len(path) - 1)

\* str(cf).endswith(filename), on whole components
EndsWith(cf, filename) ==
  /\ Len(filename) <= Len(cf)
  /\ SubSeq(cf, Len(cf) - Len(filename) + 1, Len(cf)) = filename

\* search_dir / filename: an absolute right operand replaces the left one
Join(dir, filename) == IF is_absolute(filename) THEN filename ELSE dir \o filename

\* directory contents: a set of entries with distinct paths
Exists(m, path) == \E e \in m : e.path = path

Put(m, path, text) == { e \in m : e.path # path } \cup { [path |-> path, content |-> text] }

\* find_file_in_context: the paths it can return (none: the empty set).  The
\* first matching context file that exists wins; otherwise the parents of the
\* existing context files are searched, in the order of a Python set
find_file_in_context(filename, cfs, files) ==
  LET hit(i) == (Name(cfs[i]) = Name(filename) \/ EndsWith(cfs[i], filename)) /\ cfs[i] \in files
      hits == { i \in 1..Len(cfs) : hit(i) }
      dirs_to_search == { Parent(cfs[i]) : i \in { k \in 1..Len(cfs) : cfs[k] \in files } }
      found(d) == IF Join(d, filename) \in files THEN { Join(d, filename) }
                  ELSE IF d \o <<Name(filename)>> \in files THEN { d \o <<Name(filename)>> }
                  ELSE {}
  IN IF hits # {}
     THEN { cfs[CHOOSE i \in hits : \A k \in hits : i <= k] }
     ELSE UNION { found(d) : d \in dirs_to_search }

\* setup_working_directory, up to the copy loops: mkdir, write the deck,
\* parse its file references
WriteDeck ==
  /\ fpc = "start"
  /\ wdir0' = wdir
  /\ wdir' = <<Put(IF wdir = <<>> THEN {} ELSE wdir[1], <<DeckName>>, DeckText)>>
  /\ pending' = referenced_files
  /\ cf_index' = 0
  /\ fpc' = "refs"
  /\ UNCHANGED <<disk, context_files, referenced_files>>
  /\ UNCHANGED <<gvars, vvars, evars, fvars, hvars, cvars>>

\* one iteration of "for ref_file in referenced_files" (a set: any order)
CopyReferenced ==
  /\ fpc = "refs" /\ pending # {}
  /\ \E ref_file \in pending :
       LET sources == find_file_in_context(ref_file, context_files, disk)
           dest_path == IF is_absolute(ref_file) THEN <<Name(ref_file)>> ELSE ref_file
       IN /\ pending' = pending \ {ref_file}
          /\ IF sources = {}
             THEN wdir' = wdir
             ELSE \E source_path \in sources :
                    wdir' = <<Put(wdir[1], dest_path, ContentOf(source_path))>>
  /\ UNCHANGED <<fpc, disk, context_files, referenced_files, wdir0, cf_index>>
  /\ UNCHANGED <<gvars, vvars, evars, fvars, hvars, cvars>>

\* one iteration of "for cf in context_files", or the return after the last
CopyContext ==
  /\ fpc = "refs" /\ pending = {}
  /\ IF cf_index < Len(context_files)
     THEN LET cf == context_files[cf_index + 1]
              dest_path == <<Name(cf)>>
          IN /\ cf_index' = cf_index + 1
             /\ wdir' = IF cf \in disk /\ ~Exists(wdir[1], dest_path)
                        THEN <<Put(wdir[1], dest_path, ContentOf(cf))>>
                        ELSE wdir
             /\ UNCHANGED fpc
     ELSE /\ fpc' = "set_up"
          /\ UNCHANGED <<wdir, cf_index>>
  /\ UNCHANGED <<disk, context_files, referenced_files, wdir0, pending>>
  /\ UNCHANGED <<gvars, vvars, evars, fvars, hvars, cvars>>

\* the engine, started with "-in input.lammps" and cwd = working_dir and no
\* -log option, writes its log to log.lammps and the script's dump
EngineWrites ==
  /\ fpc = "set_up"
  /\ wdir' = <<Put(Put(wdir[1], <<"log.lammps">>, EngineText), <<"dump.xyz">>, EngineText)>>
  /\ fpc' = "ran"
  /\ UNCHANGED <<disk, context_files, referenced_files, wdir0, pending, cf_index>>
  /\ UNCHANGED <<gvars, vvars, evars, fvars, hvars, cvars>>

\* suffix and stem of the file names in play
Suffix(name) ==
  CASE name = "input.lammps" -> "lammps"
    [] name = "log.lammps"   -> "lammps"
    [] name = "data.txt"     -> "txt"
    [] name = "dump.xyz"     -> "xyz"
    [] OTHER                 -> ""

Stem(name) ==
  CASE name = "input.lammps" -> "input"
    [] name = "log.lammps"   -> "log"
    [] name = "data.txt"     -> "data"
    [] name = "dump.xyz"     -> "dump"
    [] OTHER                 -> name

\* working_dir.glob("*.lammps") and working_dir.glob("input.*"): top level only
patterns_to_remove(m) ==
  { e \in m : Len(e.path) = 1 /\ (Suffix(e.path[1]) = "lammps" \/ Stem(e.path[1]) = "input") }

\* cleanup_working_directory(working_dir, keep_outputs=True): nothing for a
\* missing directory; else unlink every match, an OSError being swallowed
CleanupKeepOutputs ==
  /\ fpc \in {"start", "ran"}
  /\ wdir0' = wdir
  /\ IF wdir = <<>>
     THEN wdir' = wdir
     ELSE \E failed \in SUBSET patterns_to_remove(wdir[1]) :
            wdir' = <<(wdir[1] \ patterns_to_remove(wdir[1])) \cup failed>>
  /\ fpc' = "cleaned"
  /\ UNCHANGED <<disk, context_files, referenced_files, pending, cf_index>>
  /\ UNCHANGED <<gvars, vvars, evars, fvars, hvars, cvars>>

\* ----------------------------------------------- l3_physics on a whole output
\* An engine output in full: return code, the thermo table (header and rows),
\* whether a "Loop time" line and a "Lost atoms" line occur, and the numbers
\* of the successive "Dangerous builds = N" lines.
Headers == { <<"step", "temp", "pe">>, <<"step", "press", "etotal">> }

\* value tokens of a thermo row
Values == { "1.0", "nan", "-inf" }

\* rows written every THERMO_FREQUENCY steps
ThermoTables ==
  UNION { { [i \in 1..n |-> [step |-> (i - 1) * THERMO_FREQUENCY, vals |-> f[i]]] :
              f \in [1..n -> [1..2 -> Values]] } : n \in 0..MaxRows }

DangerousLines == UNION { [1..n -> {0, 2}] : n \in 0..MaxRuns }

EngineOutputs ==
  [ rc : {0, 1}, header : Headers, rows : ThermoTables,
    loop_time : BOOLEAN, lost : BOOLEAN, dangerous : DangerousLines ]

\* data_pattern ^\s*(\d+)\s+([-\d.eE+]+): the row starts with digits and its
\* second column starts with one of - digit . e E +
data_pattern(row) == row.vals[1] \in { "1.0", "-inf" }

\* math.isnan(float(v)) or math.isinf(float(v))
IsNanInf(v) == v \in { "nan", "-inf" }

\* the ThermoData of one row: a field is <<v>> when the header has its column
ThermoData(header, row) ==
  LET field(names) ==
        IF \E i \in 2..Len(header) : header[i] \in names
        THEN << row.vals[(CHOOSE i \in 2..Len(header) : header[i] \in names) - 1] >>
        ELSE << >>
  IN [ step |-> row.step, temp |-> field({"temp"}), press |-> field({"press"}),
       pe |-> field({"pe", "poteng"}), etotal |-> field({"etotal", "toteng"}) ]

\* _parse_thermo_output: the rows after the header that match data_pattern
parse_thermo_output(out) ==
  LET rows == SelectSeq(out.rows, data_pattern)
  IN [ i \in 1..Len(rows) |-> ThermoData(out.header, rows[i]) ]

\* the NaN/Inf warnings of one data point, in the order the code tests them
NanInfWarnings(data) ==
  (IF data.temp # <<>> /\ IsNanInf(data.temp[1])
   THEN << Detail("Temperature is NaN/Inf", data.step) >> ELSE << >>)
  \o (IF data.etotal # <<>> /\ IsNanInf(data.etotal[1])
      THEN << Detail("Total energy is NaN/Inf", data.step) >> ELSE << >>)
  \o (IF data.pe # <<>> /\ IsNanInf(data.pe[1])
      THEN << Detail("Potential energy is NaN/Inf", data.step) >> ELSE << >>)
  \o (IF data.press # <<>> /\ IsNanInf(data.press[1])
      THEN << Detail("Pressure is NaN/Inf", data.step) >> ELSE << >>)

RECURSIVE AllWarnings(_, _)
AllWarnings(thermo_data, i) ==
  IF i > Len(thermo_data) THEN << >>
  ELSE NanInfWarnings(thermo_data[i]) \o AllWarnings(thermo_data, i + 1)

\* _check_thermo_sanity; the finite values in play are equal and in range, so
\* the range, drift and conservation tests add nothing
check_thermo_sanity(thermo_data) ==
  LET warnings == AllWarnings(thermo_data, 1) IN
  IF thermo_data = << >>
  THEN [ passed |-> TRUE,
         warnings |-> << Detail("No thermodynamic data found in output", "") >> ]
  ELSE IF warnings = << >>
  THEN [ passed |-> TRUE,
         warnings |-> << Detail("Thermodynamic sanity checks passed", "") >> ]
  ELSE [ passed |-> FALSE, warnings |-> warnings ]

\* has_explosion: a pattern occurs, or the first "Dangerous builds = N" (the
\* match of re.search) has N > 0
has_explosion(out) ==
  out.lost \/ (out.dangerous # << >> /\ out.dangerous[1] > 0)

\* length of an output: the header line and the other lines, at LINE_CHARS each
OutputChars(out) ==
  LINE_CHARS * ( 1 + Len(out.rows) + Len(out.dangerous)
                 + (IF out.loop_time THEN 1 ELSE 0) + (IF out.lost THEN 1 ELSE 0) )

\* what validate_l3 reads off an output
Features(out) ==
  [ rc |-> out.rc, err |-> out.lost, marker |-> out.loop_time,
    explosion |-> has_explosion(out),
    nthermo |-> Len(parse_thermo_output(out)),
    thermo_ok |-> check_thermo_sanity(parse_thermo_output(out)).passed,
    chars |-> OutputChars(out) ]

\* validate_l3 from the engine's exit to its return
ClassifyL3 ==
  /\ ppc = "l3"
  /\ verdict' = << [ L3Completed(Features(subject)) EXCEPT
                      !.thermo_warnings = check_thermo_sanity(parse_thermo_output(subject)).warnings ] >>
  /\ ppc' = "l3_done"
  /\ UNCHANGED <<subject, pvars>>
  /\ UNCHANGED <<gvars, vvars, evars, fvars, hvars, uvars>>

\* ------------------------------------------- l0_placeholders on a whole text
\* A text is a sequence of lines, a line a sequence of tokens: free text "x",
\* the placeholders "{{N}}" and "<N>", a lower-case "{{n}}", and the marker
\* keywords "TODO:", "fixme:" and "XXX:".
LineShapes ==
  { <<"x">>, <<"{{N}}">>, <<"<N>">>, <<"{{N}}", "<N>">>, <<"{{n}}">>,
    <<"TODO:", "x">>, <<"TODO:", "<N>">>, <<"fixme:", "x">>, <<"XXX:">> }

Texts == UNION { [1..n -> LineShapes] : n \in 0..MaxLines }

\* PLACEHOLDER_PATTERNS, in order: what a token must be for the pattern
PLACEHOLDER_PATTERNS ==
  << [type |-> "double_brace",  tokens |-> {"{{N}}"}],
     [type |-> "angle_bracket", tokens |-> {"<N>"}],
     [type |-> "todo",  tokens |-> {"TODO:", "todo:"}],
     [type |-> "fixme", tokens |-> {"FIXME:", "fixme:"}],
     [type |-> "xxx",   tokens |-> {"XXX:", "xxx:"}] >>

\* re.finditer(pattern, line) for one pattern: a template pattern hits every
\* such token; a marker pattern needs at least one character after the keyword
\* and runs to the end of the line, so it hits at most once
PatternHits(pat, line, line_num) ==
  IF pat.type \in {"double_brace", "angle_bracket"}
  THEN LET at == SelectSeq([i \in 1..Len(line) |-> i], LAMBDA i : line[i] \in pat.tokens)
       IN [k \in 1..Len(at) |-> [text |-> <<line[at[k]]>>, type |-> pat.type, line |-> line_num]]
  ELSE LET at == { i \in 1..Len(line) : line[i] \in pat.tokens /\ i < Len(line) }
       IN IF at = {} THEN << >>
          ELSE LET first == CHOOSE i \in at : \A k \in at : i <= k
               IN << [text |-> SubSeq(line, first, Len(line)), type |-> pat.type,
                      line |-> line_num] >>

RECURSIVE LineHits(_, _, _)
LineHits(line, line_num, p) ==
  IF p > Len(PLACEHOLDER_PATTERNS) THEN << >>
  ELSE PatternHits(PLACEHOLDER_PATTERNS[p], line, line_num) \o LineHits(line, line_num, p + 1)

\* _find_placeholders: line by line, pattern by pattern
RECURSIVE find_placeholders(_, _)
find_placeholders(lines, line_num) ==
  IF line_num > Len(lines) THEN << >>
  ELSE LineHits(lines[line_num], line_num, 1) \o find_placeholders(lines, line_num + 1)

\* every hit counted as a template placeholder
template_placeholders_all(hits) == hits

template_placeholders(hits) ==
  SelectSeq(hits, LAMBDA h : h.type \in {"double_brace", "angle_bracket"})

markers(hits) == SelectSeq(hits, LAMBDA h : h.type \in {"todo", "fixme", "xxx"})

\* the script features of a text, as far as L0 goes
L0Features(lines) ==
  [ len |-> Len(lines), templ |-> Len(template_placeholders(find_placeholders(lines, 1))),
    syn |-> 0, neg |-> 0 ]

\* validate_l0 with its lists: template placeholders first, then markers, one
\* details line per entry
CheckL0 ==
  /\ ppc = "l0"
  /\ LET hits  == find_placeholders(subject, 1)
         found == template_placeholders(hits) \o markers(hits)
         r     == validate_l0(L0Features(subject))
     IN verdict' = << [ passed |-> r.passed, unresolved_count |-> r.unresolved_count,
                        placeholders_found |-> [i \in 1..Len(found) |-> found[i].text],
                        details |-> [i \in 1..Len(found) |->
                                       [line |-> found[i].line, type |-> found[i].type,
                                        text |-> found[i].text]] ] >>
  /\ ppc' = "l0_done"
  /\ UNCHANGED <<subject, pvars>>
  /\ UNCHANGED <<gvars, vvars, evars, fvars, hvars, uvars>>

\* ------------------------------------------------ l1_syntax on a whole text
\* A text is a sequence of lines, a line a sequence of whitespace-separated
\* tokens.  Temperatures are held in hundredths (TEMPERATURE_RANGES["lj"] is
\* 0.01 .. 10.0) and timesteps in ten-thousandths (TIMESTEP_RANGES["lj"] is
\* 0.0001 .. 0.01).
L1LineShapes ==
  { <<"units", "lj">>, <<"units", "REAL">>, <<"units", "foo">>, <<"units">>,
    <<"atom_style", "atomic">>, <<"atom_style", "bogus">>,
    <<"create_box">>,
    <<"velocity", "all", "create", "-1">>,
    <<"velocity", "all", "create", "300">>,
    <<"fix", "1", "all", "nvt", "temp", "300", "-1">>,
    <<"#", "velocity", "all", "create", "-1">>,
    <<"timestep", "0.005">>,
    <<"print", "'x">>,
    <<"pair_style", "lj/cut">> }

\* float() of the tokens that match [\d.eE+-]+
TemperatureOf == [ t \in {"-1", "300", "1", "0.005"} |->
                     CASE t = "-1" -> -100 [] t = "300" -> 30000 [] t = "1" -> 100
                       [] OTHER -> 0 ]

TimestepOf == [ t \in {"-1", "300", "1", "0.005"} |->
                  CASE t = "-1" -> -10000 [] t = "300" -> 3000000 [] t = "1" -> 10000
                    [] OTHER -> 50 ]

VALID_UNITS == {"lj", "real", "metal", "si", "cgs", "electron", "micro", "nano"}

VALID_ATOM_STYLES ==
  { "atomic", "angle", "bond", "charge", "dipole", "dpd", "edpd", "mdpd", "tdpd",
    "electron", "ellipsoid", "full", "line", "meso", "molecular", "peri", "smd",
    "sphere", "spin", "template", "tri", "wavepacket", "hybrid" }

STRUCTURE_COMMANDS == {"read_data", "read_restart", "create_box", "create_atoms"}

TIMESTEP_RANGES ==
  [ u \in VALID_UNITS |->
      CASE u \in {"lj", "metal", "electron"} -> <<1, 100>>
        [] u = "real"  -> <<1000, 100000>>
        [] u = "micro" -> <<1000, 1000000>>
        [] u = "nano"  -> <<1, 10000>>
        [] OTHER       -> <<0, 0>> ]      \* si, cgs: 1e-18 .. 1e-14

TEMPERATURE_RANGES ==
  [ u \in VALID_UNITS |-> IF u = "lj" THEN <<1, 1000>> ELSE <<100, 1000000>> ]

\* _parse_command: None (<<>>) or <<[cmd, args]>>;
\* line.split("#")[0].strip().split() is the tokens before the first "#"
parse_command(line) ==
  LET at    == { i \in 1..Len(line) : line[i] = "#" }
      parts == IF at = {} THEN line
               ELSE SubSeq(line, 1, (CHOOSE i \in at : \A k \in at : i <= k) - 1)
  IN IF parts = << >> THEN << >>
     ELSE << [cmd |-> Lower(parts[1]), args |-> Tail(parts)] >>

\* commands_found of validate_l1's parsing loop
commands_found(lines) ==
  { parse_command(lines[i])[1].cmd : i \in { k \in 1..Len(lines) : parse_command(lines[k]) # << >> } }

\* command_args[cmd] after the parsing loop: every occurrence assigns it, so
\* the last one stays.  None (<<>>) when the command never occurs.
command_args(lines, cmd) ==
  LET at == { i \in 1..Len(lines) : parse_command(lines[i]) # << >>
                                    /\ parse_command(lines[i])[1].cmd = cmd }
  IN IF at = {} THEN << >>
     ELSE << parse_command(lines[CHOOSE i \in at : \A k \in at : i >= k])[1].args >>

\* _check_required_commands, _check_structure_commands
check_required_commands(found) ==
  (IF "units" \in found THEN << >> ELSE << [msg |-> "No 'units' command found", arg |-> ""] >>)
  \o (IF "atom_style" \in found THEN << >> ELSE << [msg |-> "No 'atom_style' command found", arg |-> ""] >>)

check_structure_commands(found) ==
  IF found \cap STRUCTURE_COMMANDS # {} THEN << >>
  ELSE << [msg |-> "No structure command found", arg |-> ""] >>

\* _check_pair_definitions
check_pair_definitions(found) ==
  IF "pair_style" \in found /\ "pair_coeff" \notin found
  THEN << [msg |-> "pair_style defined but no pair_coeff found", arg |-> ""] >>
  ELSE IF "pair_coeff" \in found /\ "pair_style" \notin found
  THEN << [msg |-> "pair_coeff defined but no pair_style found", arg |-> ""] >>
  ELSE << >>

\* _validate_units_command, _validate_atom_style_command on an argument list
validate_units_command(args) ==
  IF args = << >> THEN << [msg |-> "units command requires a unit system argument", arg |-> ""] >>
  ELSE IF Lower(args[1]) \notin VALID_UNITS
  THEN << [msg |-> "Unknown unit system", arg |-> Lower(args[1])] >>
  ELSE << >>

validate_atom_style_command(args) ==
  IF args = << >> THEN << [msg |-> "atom_style command requires a style argument", arg |-> ""] >>
  ELSE IF Lower(args[1]) \notin VALID_ATOM_STYLES
  THEN << [msg |-> "Unknown atom style", arg |-> Lower(args[1])] >>
  ELSE << >>

\* line.strip().startswith("#")
IsCommentLine(line) == line # << >> /\ line[1] = "#"

\* _check_common_syntax_errors: of the characters it counts only the single
\* quote occurs in the tokens
RECURSIVE check_common_syntax_errors(_, _)
check_common_syntax_errors(lines, line_num) ==
  IF line_num > Len(lines) THEN << >>
  ELSE LET line   == lines[line_num]
           quotes == Cardinality({ i \in 1..Len(line) : line[i] = "'x" })
       IN (IF line # << >> /\ ~IsCommentLine(line) /\ quotes % 2 # 0
           THEN << [line |-> line_num, msg |-> "Unbalanced single quotes"] >>
           ELSE << >>)
          \o check_common_syntax_errors(lines, line_num + 1)

\* _parse_timestep: the first line that starts with "timestep <number>"
parse_timestep(lines) ==
  LET at == { i \in 1..Len(lines) : /\ ~IsCommentLine(lines[i])
                                    /\ Len(lines[i]) >= 2
                                    /\ Lower(lines[i][1]) = "timestep"
                                    /\ lines[i][2] \in DOMAIN TimestepOf }
  IN IF at = {} THEN << >>
     ELSE << TimestepOf[lines[CHOOSE i \in at : \A k \in at : i <= k][2]] >>

\* _parse_temperatures.  The fix branch: a thermostat keyword anywhere in the
\* line, then the first "temp <number> <number>".  The velocity branch: the
\* line starts with "velocity <group> create <number>".
RECURSIVE parse_temperatures(_, _)
parse_temperatures(lines, line_num) ==
  IF line_num > Len(lines) THEN << >>
  ELSE LET line == lines[line_num]
           at == { i \in 1..Len(line) - 2 : /\ Lower(line[i]) = "temp"
                                              /\ line[i + 1] \in DOMAIN TemperatureOf
                                              /\ line[i + 2] \in DOMAIN TemperatureOf }
           i  == CHOOSE j \in at : \A k \in at : j <= k
           fix == IF (\E k \in 1..Len(line) :
                        Lower(line[k]) \in {"nvt", "npt", "langevin", "temp/berendsen"})
                     /\ at # {}
                  THEN << [temp |-> TemperatureOf[line[i + 1]], line |-> line_num,
                           context |-> "fix temperature start"],
                          [temp |-> TemperatureOf[line[i + 2]], line |-> line_num,
                           context |-> "fix temperature end"] >>
                  ELSE << >>
           velocity == IF /\ Len(line) >= 4
                          /\ Lower(line[1]) = "velocity"
                          /\ Lower(line[3]) = "create"
                          /\ line[4] \in DOMAIN TemperatureOf
                       THEN << [temp |-> TemperatureOf[line[4]], line |-> line_num,
                                context |-> "velocity create"] >>
                       ELSE << >>
       IN (IF IsCommentLine(line) THEN << >> ELSE fix \o velocity)
          \o parse_temperatures(lines, line_num + 1)

\* _check_timestep_physics
check_timestep_physics(timestep, units) ==
  IF units \notin DOMAIN TIMESTEP_RANGES THEN << >>
  ELSE IF timestep < TIMESTEP_RANGES[units][1]
  THEN << [kind |-> "Timestep very small", value |-> timestep, units |-> units] >>
  ELSE IF timestep > TIMESTEP_RANGES[units][2]
  THEN << [kind |-> "Timestep very large", value |-> timestep, units |-> units] >>
  ELSE << >>

\* the loop of _check_temperature_physics against a range
RECURSIVE TemperatureWarnings(_, _, _)
TemperatureWarnings(temperatures, range, i) ==
  IF i > Len(temperatures) THEN << >>
  ELSE LET t == temperatures[i]
           w(kind) == << [kind |-> kind, value |-> t.temp, line |-> t.line,
                          context |-> t.context] >>
       IN (IF t.temp < 0 THEN w("Negative temperature")
           ELSE IF t.temp < range[1] THEN w("Very low temperature")
           ELSE IF t.temp > range[2] THEN w("Very high temperature")
           ELSE << >>)
          \o TemperatureWarnings(temperatures, range, i + 1)

\* _check_temperature_physics: nothing at all for a unit system without a range
check_temperature_physics(temperatures, units) ==
  IF units \notin DOMAIN TEMPERATURE_RANGES THEN << >>
  ELSE TemperatureWarnings(temperatures, TEMPERATURE_RANGES[units], 1)

\* the body of validate_l1 after its parsing loop, given the argument lists
\* kept for "units" and "atom_style"
L1Lists(lines, units_args, atom_style_args) ==
  LET found    == commands_found(lines)
      common   == check_common_syntax_errors(lines, 1)
      syntax   == check_required_commands(found) \o check_structure_commands(found)
                  \o (IF units_args # << >> THEN validate_units_command(units_args[1]) ELSE << >>)
                  \o (IF atom_style_args # << >> THEN validate_atom_style_command(atom_style_args[1]) ELSE << >>)
                  \o [i \in 1..Len(common) |-> [msg |-> common[i].msg, arg |-> ""]]
      units    == IF units_args # << >> /\ units_args[1] # << >>
                  THEN Lower(units_args[1][1]) ELSE "lj"
      timestep == parse_timestep(lines)
      ts       == IF timestep # << >> THEN check_timestep_physics(timestep[1], units) ELSE << >>
      temps    == parse_temperatures(lines, 1)
  IN [ syntax_errors    |-> syntax,
       physics_warnings |-> ts \o check_temperature_physics(temps, units),
       line_numbers     |-> [i \in 1..Len(common) |-> common[i].line],
       pair_warnings    |-> check_pair_definitions(found),
       no_timestep      |-> timestep = << >> ]

\* the script features of a text, as far as L1 goes
L1Features(lines) ==
  LET r == L1Lists(lines, command_args(lines, "units"), command_args(lines, "atom_style"))
  IN [ len |-> Len(lines), templ |-> 0, syn |-> Len(r.syntax_errors),
       neg |-> Len(SelectSeq(r.physics_warnings, LAMBDA w : w.kind = "Negative temperature")) ]

\* validate_l1 with its lists
CheckL1 ==
  /\ ppc = "l1"
  /\ LET r == L1Lists(subject, command_args(subject, "units"), command_args(subject, "atom_style"))
     IN verdict' = << [ passed |-> validate_l1(L1Features(subject)).passed,
                        syntax_errors |-> r.syntax_errors,
                        physics_warnings |-> r.physics_warnings,
                        line_numbers |-> r.line_numbers,
                        pair_warnings |-> r.pair_warnings,
                        no_timestep |-> r.no_timestep ] >>
  /\ ppc' = "l1_done"
  /\ UNCHANGED <<subject, pvars>>
  /\ UNCHANGED <<gvars, vvars, evars, fvars, hvars, uvars>>

\* ------------------------------------------ AnthropicProvider.create_message
\* The calls of create_message that one generate_deck makes, one per iteration
\* of its loop; of generate_deck only the loop is kept: what it does with a
\* returned text decides whether there is a next iteration.
RetryableErrors == { "RateLimitError", "APIStatusError" }

\* a sleep after every failed call, the last one too
CanRetry_always(k) == TRUE

\* if attempt < self.MAX_RETRIES - 1
CanRetry(k) == k < MAX_RETRIES - 1

\* one pass of the try block: the API call returns a text, which
\* create_message returns; or raises a rate-limit or status error, which is
\* kept as last_exception; or raises anything else, which propagates
ApiCall ==
  /\ ppc = "api" /\ attempt < MAX_RETRIES
  /\ api_calls' = api_calls + 1
  /\ \/ \E r \in LLMResponses :
          /\ api_log' = Append(api_log, [ok |-> TRUE, text |-> <<r>>, error |-> ""])
          /\ verdict' = << [raised |-> << >>, text |-> <<r>>] >>
          /\ ppc' = "returned"
          /\ UNCHANGED <<attempt, last_exception>>
     \/ \E e \in RetryableErrors :
          /\ api_log' = Append(api_log, [ok |-> FALSE, text |-> << >>, error |-> e])
          /\ last_exception' = << e >>
          /\ IF CanRetry(attempt)
             THEN ppc' = "sleep" /\ UNCHANGED attempt
             ELSE ppc' = "api" /\ attempt' = attempt + 1
          /\ UNCHANGED verdict
     \/ \E e \in { "APIConnectionError" } :
          /\ api_log' = Append(api_log, [ok |-> FALSE, text |-> << >>, error |-> e])
          /\ verdict' = << [raised |-> << e >>, text |-> << >>] >>
          /\ ppc' = "raised"
          /\ UNCHANGED <<attempt, last_exception>>
  /\ UNCHANGED <<subject, sleeps>>
  /\ UNCHANGED <<gvars, vvars, evars, fvars, hvars, uvars>>

\* delay = self.BASE_DELAY * (2**attempt); await asyncio.sleep(delay); continue
Sleep ==
  /\ ppc = "sleep"
  /\ sleeps' = Append(sleeps, BASE_DELAY * 2 ^ attempt)
  /\ attempt' = attempt + 1
  /\ ppc' = "api"
  /\ UNCHANGED <<subject, verdict, last_exception, api_log, api_calls>>
  /\ UNCHANGED <<gvars, vvars, evars, fvars, hvars, uvars>>

\* the loop is exhausted: raise last_exception
RaiseLast ==
  /\ ppc = "api" /\ attempt = MAX_RETRIES
  /\ verdict' = << [raised |-> last_exception, text |-> << >>] >>
  /\ ppc' = "raised"
  /\ UNCHANGED <<subject, attempt, last_exception, api_log, sleeps, api_calls>>
  /\ UNCHANGED <<gvars, vvars, evars, fvars, hvars, uvars>>

\* generate_deck after create_message: an exception ends the loop; after a
\* text the loop ends (validation passed, fixing off, attempts exhausted, an
\* exception) or goes on to the next iteration and calls create_message again
GenerationLoop ==
  /\ ppc \in {"returned", "raised"}
  /\ \/ /\ ppc' = "done"
        /\ UNCHANGED <<attempt_num, verdict, pvars>>
     \/ /\ ppc = "returned"
        /\ attempt_num < max_attempts(inp)
        /\ attempt_num' = attempt_num + 1
        /\ ppc' = "api"
        /\ verdict' = <<>>
        /\ attempt' = 0
        /\ last_exception' = <<>>
        /\ api_log' = <<>>
        /\ sleeps' = <<>>
        /\ UNCHANGED api_calls
  /\ UNCHANGED subject
  /\ UNCHANGED <<inp, gpc, response, deck_content, validation, attempts,
                 errors, current_prompt, output_path, output_file, result>>
  /\ UNCHANGED <<vvars, evars, fvars, hvars, uvars>>

\* ------------------------------------- the deck validate_l3 hands the engine
\* A deck is a sequence of lines, a line a sequence of tokens.
DeckLineShapes ==
  { <<"units", "lj">>, <<"run", "100">>, <<"RUN", "5000", "upto">>, <<"thermo", "100">>,
    <<"thermo_style", "one">>, <<"fix", "1", "all", "nve">>, <<"run_style", "verlet">>,
    <<"minimize", "0", "0", "100", "1000">>, <<"#", "run", "1">>, << >> }

THERMO_STYLE_LINE == <<"thermo_style", "custom", "step", "temp", "press", "pe", "ke", "etotal">>

THERMO_LINE == <<"thermo", ToString(THERMO_FREQUENCY)>>

\* the command of a line: None (<<>>) for an empty line or a comment
DeckCommand(line) ==
  IF line = << >> \/ line[1] = "#" THEN << >> ELSE << Lower(line[1]) >>

\* _create_minimal_step_deck: rewrite the run, minimize and thermo commands;
\* without a thermo command insert the thermo pair before the first line that
\* starts with the letters "run" or "fix", else at the end; without a run
\* command append one
create_minimal_step_deck(lines, steps) ==
  LET rewrite(line) ==
        CASE DeckCommand(line) = << "run" >>      -> <<"run", ToString(steps)>>
          [] DeckCommand(line) = << "minimize" >> ->
               <<"minimize", "1e-4", "1e-6", ToString(steps), ToString(steps * 10)>>
          [] DeckCommand(line) = << "thermo" >>   -> THERMO_LINE
          [] OTHER -> line
      modified_lines == [i \in 1..Len(lines) |-> rewrite(lines[i])]
      run_found    == \E i \in 1..Len(lines) : DeckCommand(lines[i]) = << "run" >>
      thermo_found == \E i \in 1..Len(lines) : DeckCommand(lines[i]) = << "thermo" >>
      at == { i \in 1..Len(modified_lines) :
                /\ modified_lines[i] # << >>
                /\ Lower(modified_lines[i][1]) \in { "run", "run_style", "fix" } }
      insert_idx == IF at = {} THEN Len(modified_lines) + 1
                    ELSE CHOOSE i \in at : \A k \in at : i <= k
      with_thermo == IF thermo_found THEN modified_lines
                     ELSE SubSeq(modified_lines, 1, insert_idx - 1)
                          \o << THERMO_STYLE_LINE, THERMO_LINE >>
                          \o SubSeq(modified_lines, insert_idx, Len(modified_lines))
  IN IF run_found THEN with_thermo
     ELSE Append(with_thermo, <<"run", ToString(steps)>>)

CreateDeck ==
  /\ ppc = "deck"
  /\ verdict' = << create_minimal_step_deck(subject.lines, subject.steps) >>
  /\ ppc' = "deck_done"
  /\ UNCHANGED <<subject, pvars>>
  /\ UNCHANGED <<gvars, vvars, evars, fvars, hvars, uvars>>

\* ------------------------------------------ parse_llm_response on its own
CheckParse ==
  /\ ppc = "parse"
  /\ verdict' = << parse_llm_response(subject) >>
  /\ ppc' = "parse_done"
  /\ UNCHANGED <<subject, pvars>>
  /\ UNCHANGED <<gvars, vvars, evars, fvars, hvars, uvars>>

\* ------------------------------------------------------------ specification
\* nothing validated, no engine call in progress, a clean machine
Idle ==
  /\ issues = <<>>
  /\ l0_result = <<>> /\ l1_result = <<>> /\ l2_result = <<>> /\ l3_result = <<>>
  /\ vresult = <<>>
  /\ epc = "idle"
  /\ binary = "none"
  /\ working_dir = 0
  /\ eresult = <<>>
  /\ dirs = {}
  /\ procs = 0
  /\ ran = <<>>
  /\ how = "none"
  /\ spawned = 0
  /\ lastOverall = <<>>
  /\ faults = 0

\* no working directory is being set up or cleaned on its own
NoUtility ==
  /\ fpc = "none"
  /\ disk = {}
  /\ context_files = <<>>
  /\ referenced_files = {}
  /\ wdir = <<>>
  /\ wdir0 = <<>>
  /\ pending = {}
  /\ cf_index = 0

\* create_message not entered
NoProvider ==
  /\ attempt = 0
  /\ last_exception = <<>>
  /\ api_log = <<>>
  /\ sleeps = <<>>
  /\ api_calls = 0

\* no check is called on its own
NoCheck ==
  /\ ppc = "none"
  /\ subject = <<>>
  /\ verdict = <<>>
  /\ NoProvider

\* generate_deck not entered
NotGenerating ==
  /\ attempt_num = 0
  /\ response = <<>>
  /\ deck_content = EmptyScript
  /\ validation = <<>>
  /\ attempts = <<>>
  /\ errors = <<>>
  /\ current_prompt = [kind |-> "initial", errors |-> <<>>, lammps_output |-> <<>>]
  /\ output_path = FALSE
  /\ output_file = <<>>
  /\ result = <<>>
  /\ llmCalls = 0
  /\ llmOutcome = "none"

\* generate_deck(reaper_input) is entered
Init ==
  /\ inp \in Inputs
  /\ env \in Hosts
  /\ gpc = "init"
  /\ vpc = "idle"
  /\ content = EmptyScript
  /\ valRuns = 0
  /\ NotGenerating
  /\ Idle
  /\ NoUtility
  /\ NoCheck

Next ==
  \/ ProviderInit
  \/ CreateMessage
  \/ ParseResponse
  \/ ValidateL0
  \/ ValidateL1
  \/ FindBinary
  \/ Mkdtemp
  \/ SetupDeck
  \/ RunEngine
  \/ EngineExit
  \/ EngineTimeout
  \/ Cleanup
  \/ EngineReturn
  \/ EngineRaise
  \/ Aggregate
  \/ ValidationRaises
  \/ RecordAttempt
  \/ WriteOutput
  \/ ReturnResult
  \/ Interrupt

Spec == Init /\ [][Next]_vars

\* the event loop resumes the coroutine, blocking calls return, the engine
\* exits or subprocess.run's timeout fires
FairSpec == Spec /\ WF_vars(Next)

\* validate_deck(content, lammps_binary) is entered by a caller other than
\* generate_deck
InitValidate ==
  /\ inp = [max_retries |-> 0, enable_iterative_fixing |-> FALSE, has_output_path |-> FALSE]
  /\ env \in Probes
  /\ gpc = "none"
  /\ vpc = "l0"
  /\ content \in Decks
  /\ valRuns = 1
  /\ NotGenerating
  /\ Idle
  /\ NoUtility
  /\ NoCheck

NextValidate ==
  \/ ValidateL0
  \/ ValidateL1
  \/ FindBinary
  \/ Mkdtemp
  \/ SetupDeck
  \/ RunEngine
  \/ EngineExit
  \/ EngineTimeout
  \/ Cleanup
  \/ EngineReturn
  \/ EngineRaise
  \/ Aggregate

SpecValidate == InitValidate /\ [][NextValidate]_vars

\* blocking calls return, the engine exits or subprocess.run's timeout fires
FairSpecValidate == SpecValidate /\ WF_vars(NextValidate)

\* a working directory is set up for a script, the engine runs in it, and it
\* is cleaned with keep_outputs; or a directory is cleaned as it is found
InitFiles ==
  /\ fpc = "start"
  /\ disk \in SUBSET Sources
  /\ context_files \in ContextLists
  /\ referenced_files \in SUBSET Refs
  /\ wdir \in { <<>>, <<{}>>, <<{[path |-> <<"data.txt">>, content |-> OldText]}>> }
  /\ wdir0 = wdir
  /\ pending = {}
  /\ cf_index = 0
  /\ inp = [max_retries |-> 0, enable_iterative_fixing |-> FALSE, has_output_path |-> FALSE]
  /\ env = <<FALSE, FALSE, FALSE>>
  /\ gpc = "none"
  /\ vpc = "idle"
  /\ content = EmptyScript
  /\ valRuns = 0
  /\ NotGenerating
  /\ Idle
  /\ NoCheck

NextFiles ==
  \/ WriteDeck
  \/ CopyReferenced
  \/ CopyContext
  \/ EngineWrites
  \/ CleanupKeepOutputs

SpecFiles == InitFiles /\ [][NextFiles]_vars

\* the engine ran to an exit in validate_l3 and printed some output
InitL3 ==
  /\ ppc = "l3"
  /\ subject \in EngineOutputs
  /\ verdict = <<>>
  /\ NoProvider
  /\ inp = [max_retries |-> 0, enable_iterative_fixing |-> FALSE, has_output_path |-> FALSE]
  /\ env = <<FALSE, FALSE, FALSE>>
  /\ gpc = "none"
  /\ vpc = "idle"
  /\ content = EmptyScript
  /\ valRuns = 0
  /\ NotGenerating
  /\ Idle
  /\ NoUtility

NextL3 == ClassifyL3

SpecL3 == InitL3 /\ [][NextL3]_vars

\* validate_l0 is called on a text
InitL0 ==
  /\ ppc = "l0"
  /\ subject \in Texts
  /\ verdict = <<>>
  /\ NoProvider
  /\ inp = [max_retries |-> 0, enable_iterative_fixing |-> FALSE, has_output_path |-> FALSE]
  /\ env = <<FALSE, FALSE, FALSE>>
  /\ gpc = "none"
  /\ vpc = "idle"
  /\ content = EmptyScript
  /\ valRuns = 0
  /\ NotGenerating
  /\ Idle
  /\ NoUtility

NextL0 == CheckL0

SpecL0 == InitL0 /\ [][NextL0]_vars

\* validate_l1 is called on a text
InitL1 ==
  /\ ppc = "l1"
  /\ subject \in UNION { [1..n -> L1LineShapes] : n \in 0..MaxL1Lines }
  /\ verdict = <<>>
  /\ NoProvider
  /\ inp = [max_retries |-> 0, enable_iterative_fixing |-> FALSE, has_output_path |-> FALSE]
  /\ env = <<FALSE, FALSE, FALSE>>
  /\ gpc = "none"
  /\ vpc = "idle"
  /\ content = EmptyScript
  /\ valRuns = 0
  /\ NotGenerating
  /\ Idle
  /\ NoUtility

SpecL1 == InitL1 /\ [][CheckL1]_vars

\* parse_llm_response is called on a response
InitParse ==
  /\ ppc = "parse"
  /\ subject \in [ script : Scripts \cup {EmptyScript},
                    json : { << >> } \cup { << j >> : j \in JsonBlocks } ]
  /\ verdict = <<>>
  /\ NoProvider
  /\ inp = [max_retries |-> 0, enable_iterative_fixing |-> FALSE, has_output_path |-> FALSE]
  /\ env = <<FALSE, FALSE, FALSE>>
  /\ gpc = "none"
  /\ vpc = "idle"
  /\ content = EmptyScript
  /\ valRuns = 0
  /\ NotGenerating
  /\ Idle
  /\ NoUtility

SpecParse == InitParse /\ [][CheckParse]_vars

\* _create_minimal_step_deck is called on a deck
InitDeck ==
  /\ ppc = "deck"
  /\ subject \in [ lines : UNION { [1..n -> DeckLineShapes] : n \in 0..MaxDeckLines },
                    steps : { 1, MINIMAL_STEPS } ]
  /\ verdict = <<>>
  /\ NoProvider
  /\ inp = [max_retries |-> 0, enable_iterative_fixing |-> FALSE, has_output_path |-> FALSE]
  /\ env = <<FALSE, FALSE, FALSE>>
  /\ gpc = "none"
  /\ vpc = "idle"
  /\ content = EmptyScript
  /\ valRuns = 0
  /\ NotGenerating
  /\ Idle
  /\ NoUtility

SpecDeck == InitDeck /\ [][CreateDeck]_vars

\* generate_deck has a provider and enters its loop
InitProvider ==
  /\ ppc = "api"
  /\ subject = <<>>
  /\ verdict = <<>>
  /\ NoProvider
  /\ inp \in Inputs
  /\ env = <<FALSE, FALSE, FALSE>>
  /\ gpc = "none"
  /\ vpc = "idle"
  /\ content = EmptyScript
  /\ valRuns = 0
  /\ attempt_num = 1
  /\ response = <<>>
  /\ deck_content = EmptyScript
  /\ validation = <<>>
  /\ attempts = <<>>
  /\ errors = <<>>
  /\ current_prompt = [kind |-> "initial", errors |-> <<>>, lammps_output |-> <<>>]
  /\ output_path = FALSE
  /\ output_file = <<>>
  /\ result = <<>>
  /\ llmCalls = 0
  /\ llmOutcome = "none"
  /\ Idle
  /\ NoUtility

NextProvider ==
  \/ ApiCall
  \/ Sleep
  \/ RaiseLast
  \/ GenerationLoop

SpecProvider == InitProvider /\ [][NextProvider]_vars

\* ==================================================================== claims
Terminated == gpc \in {"done", "raised", "cancelled"}

ValidateEnded == vpc \in {"done", "raised"}

NoBinary == <<FALSE, FALSE, FALSE>>

\* the bound the specification states for the generation loop
ClaimedMaxAttempts == IF inp.enable_iterative_fixing THEN inp.max_retries + 1 ELSE 1

LevelOrder == <<"L0", "L1", "L2", "L3">>

IsPrefix(a, b) == Len(a) <= Len(b) /\ \A i \in 1..Len(a) : a[i] = b[i]

\* C1: every call of generate_deck terminates (returns or unwinds), and it never
\* issues more than max_attempts LLM calls, max_attempts being max_retries + 1
\* with iterative fixing and 1 without.
C1_TerminatesWithinMaxAttempts ==
  [](llmCalls <= ClaimedMaxAttempts) /\ <>Terminated

C1_Witness ==
  /\ gpc = "done" /\ result # <<>>
  /\ ClaimedMaxAttempts >= 2
  /\ llmCalls = ClaimedMaxAttempts

C3_AllLevelsRunInOrder ==
  /\ IsPrefix(ran, LevelOrder)
  /\ ValidateEnded => ran = LevelOrder

\* C4: in every result of validate_deck, overall_passed is the conjunction of
\* the four passed flags, issues holds exactly one summary entry per failing
\* level in the order L0, L1, L2, L3, and overall_passed holds iff issues is empty.
C4_FailingLevels(v) ==
  (IF ~v.l0.passed THEN <<"L0">> ELSE <<>>) \o (IF ~v.l1.passed THEN <<"L1">> ELSE <<>>)
  \o (IF ~v.l2.passed THEN <<"L2">> ELSE <<>>) \o (IF ~v.l3.passed THEN <<"L3">> ELSE <<>>)

C4_OverallIsConjunction ==
  vresult # <<>> =>
    LET v == vresult[1] IN
      /\ v.overall_passed = (v.l0.passed /\ v.l1.passed /\ v.l2.passed /\ v.l3.passed)
      /\ [i \in 1..Len(v.issues) |-> v.issues[i].level] = C4_FailingLevels(v)
      /\ v.overall_passed <=> v.issues = <<>>

C4_Witness ==
  /\ vresult # <<>>
  /\ ~vresult[1].l0.passed /\ ~vresult[1].l1.passed
  /\ vresult[1].l2.passed /\ ~vresult[1].l3.passed
  /\ Len(vresult[1].issues) = 3

\* C5: when validate_l2 / validate_l3 returns or unwinds after creating a
\* temporary working directory, that directory no longer exists.
C5_WorkingDirRemoved ==
  (epc \in {"ret", "raise"} /\ working_dir # 0) => working_dir \notin dirs

\* C6: a failure while creating the temporary directory, setting it up, or
\* launching / running the engine yields an outcome with passed = False and the
\* exception message in details; no exception leaves validate_l2, validate_l3 or
\* validate_deck.
C6_FailuresBecomeOutcomes ==
  /\ epc # "raise" /\ vpc # "raised"
  /\ (epc = "ret" /\ how = "error") =>
       /\ ~eresult[1].passed
       /\ eresult[1].details[1].msg = "Error running LAMMPS"

\* C7: when the engine does not finish within the timeout, validate_l2 /
\* validate_l3 still returns, with passed = False, return_code = -1, empty
\* engine_output and a first detail "timed out after <timeout> seconds"; for L3
\* steps_run = 0 and thermo_data is empty.
C7_TimeoutOutcome ==
  (epc = "ret" /\ how = "timeout") =>
    LET r == eresult[1] IN
      /\ ~r.passed
      /\ r.return_code = -1
      /\ r.engine_output = <<>>
      /\ r.details[1].msg = "LAMMPS execution timed out after"
      /\ r.details[1].arg = (IF vpc = "l2" THEN 30 ELSE 60)
      /\ vpc = "l3" => (r.steps_run = 0 /\ r.thermo_data = 0)

C7_TimeoutReturns ==
  []C7_TimeoutOutcome /\ ((how = "timeout") ~> (epc = "ret" /\ how = "timeout"))

C7_Witness == epc = "ret" /\ how = "timeout" /\ vpc = "l3"

\* C8: with no engine binary anywhere (user path, LAMMPS_BINARY, default
\* locations), validate_l2 and validate_l3 return passed = True with a "skipped"
\* detail, L3 has steps_run = 0, no working directory is created and no
\* subprocess is started.
C8_SkippedWithoutBinary ==
  env = NoBinary =>
    /\ dirs = {} /\ working_dir = 0
    /\ procs = 0 /\ spawned = 0
    /\ epc = "ret" =>
         LET r == eresult[1] IN
           /\ r.passed
           /\ r.details[1].msg = (IF vpc = "l2"
                                  THEN "LAMMPS binary not found - L2 validation skipped"
                                  ELSE "LAMMPS binary not found - L3 validation skipped")
           /\ vpc = "l3" => r.steps_run = 0

C8_Witness == env = NoBinary /\ epc = "ret" /\ vpc = "l3" /\ how = "skip"

\* C9: when the LLM call raises at iteration k, one error naming attempt k is
\* appended, no further LLM call and no further validation happen in that call,
\* and generate_deck returns a result whose attempts are those recorded before
\* iteration k.
C9_Step ==
  /\ (llmOutcome # "raise" /\ llmOutcome' = "raise") =>
       /\ errors' = Append(errors, Err("LLM API error", attempt_num))
       /\ llmCalls' = attempt_num
       /\ attempts' = attempts
  /\ llmOutcome = "raise" =>
       /\ llmCalls' = llmCalls
       /\ valRuns' = valRuns /\ vpc' = "idle" /\ epc' = "idle"
       /\ attempts' = attempts
       /\ gpc' # "raised"
       /\ result' # <<>> => result'[1].attempts = attempts

C9_LLMErrorEndsLoop == [][C9_Step]_vars

C9_Witness ==
  /\ llmOutcome = "raise" /\ gpc = "done" /\ result # <<>>
  /\ llmCalls = 2
  /\ Len(result[1].attempts) = 1

\* C10: when the script parsed at iteration k is empty, an error for attempt k
\* is recorded, validate_deck is not invoked for that iteration, and the loop
\* goes on to iteration k + 1 exactly when k < max_attempts.
C10_Step ==
  (/\ gpc = "parse"
   /\ parse_llm_response(response[1]).raised = << >>
   /\ ~Truthy(parse_llm_response(response[1]).script)) =>
    /\ errors' = Append(errors, Err("LLM returned empty response", attempt_num))
    /\ valRuns' = valRuns /\ vpc' = "idle"
    /\ attempts' = attempts
    /\ IF attempt_num < ClaimedMaxAttempts
       THEN gpc' = "call_llm" /\ attempt_num' = attempt_num + 1
       ELSE gpc' \notin {"call_llm", "parse", "validating"} /\ llmCalls' = llmCalls

C10_EmptyScriptSkipsValidation == [][C10_Step]_vars

C10_Witness ==
  /\ gpc = "call_llm" /\ attempt_num = 2
  /\ errors # <<>>
  /\ errors[Len(errors)] = Err("LLM returned empty response", 1)

\* C11: every loop iteration records exactly one GenerationAttempt: on return
\* attempts has one entry per iteration executed (one LLM call each) and
\* total_attempts equals the number of LLM calls made.
C11_OneAttemptPerIteration ==
  (result # <<>> /\ llmCalls > 0) =>
    /\ Len(result[1].attempts) = llmCalls
    /\ result[1].total_attempts = llmCalls

\* C12: with iterative fixing disabled, once the first script has failed
\* validation there has been exactly one LLM call, exactly one attempt is
\* recorded, its fixes_applied is empty, no fix prompt was built and the loop is
\* over, whatever max_retries is.
C12_NoFixingStopsAfterOne ==
  (~inp.enable_iterative_fixing /\ attempts # <<>> /\ ~attempts[1].validation_passed) =>
    /\ llmCalls = 1
    /\ Len(attempts) = 1
    /\ attempts[1].fixes_applied = <<>>
    /\ current_prompt.kind = "initial"
    /\ gpc \notin {"call_llm", "parse", "validating"}

C12_Witness ==
  /\ ~inp.enable_iterative_fixing /\ inp.max_retries >= 1
  /\ result # <<>> /\ Len(result[1].attempts) = 1
  /\ ~result[1].attempts[1].validation_passed

\* C13: when the provider cannot be initialised, generate_deck returns at once
\* with success = False, empty deck_content, validation = None, no attempts and
\* an explicit error, after no LLM call, no validation and no output file.
C13_ProviderFailed ==
  /\ result # <<>> /\ result[1].errors # <<>>
  /\ result[1].errors[1].kind = "Failed to initialize provider"

C13_ProviderFailureAborts ==
  C13_ProviderFailed =>
    /\ ~result[1].success
    /\ ~Truthy(result[1].deck_content)
    /\ result[1].validation = <<>>
    /\ result[1].attempts = <<>>
    /\ Len(result[1].errors) = 1
    /\ ~result[1].output_path /\ output_file = <<>>
    /\ llmCalls = 0 /\ valRuns = 0 /\ dirs = {} /\ spawned = 0
    /\ gpc = "done"

C13_Witness == C13_ProviderFailed /\ gpc = "done" /\ inp.has_output_path

\* C14: once generate_deck has been cancelled or interrupted (in the LLM call,
\* in an engine run or in the final write), the file at output_path is absent or
\* holds the whole deck, and no temporary working directory of the request exists.
C14_CancelLeavesNothing ==
  gpc = "cancelled" =>
    /\ output_file # <<>> => output_file[1] = deck_content
    /\ dirs = {}

\* C15: no copy step of setup_working_directory overwrites a file that is
\* already at its destination: every file under working_dir before a copy step
\* (there before the call, the script just written, or copied earlier in the
\* call) has the same content after it.
C15_Step ==
  (fpc = "refs" /\ fpc' \in {"refs", "set_up"}) => \A e \in wdir[1] : e \in wdir'[1]

C15_CopyNeverOverwrites == [][C15_Step]_vars

\* C16: after setup_working_directory, every relative reference of the script
\* that names an existing context file is present under working_dir at the
\* referenced path with the content of a context file it names, also when
\* context files in different directories share a base name.
C16_Named(ref) ==
  { cf \in disk : EndsWith(cf, ref) /\ \E i \in 1..Len(context_files) : context_files[i] = cf }

C16_ReferencedFilesMaterialised ==
  fpc = "set_up" =>
    \A ref \in referenced_files :
      (~is_absolute(ref) /\ C16_Named(ref) # {}) =>
        \E e \in wdir[1] : /\ e.path = ref
                            /\ \E cf \in C16_Named(ref) : e.content = ContentOf(cf)

\* C17: cleanup_working_directory(dir, keep_outputs=True) does nothing on a
\* missing directory; otherwise the directory stays, the script / input-pattern
\* files are gone and every other file, in particular what the engine wrote (its
\* log and dump), is unchanged.
C17_InputFile(e) ==
  /\ e \in patterns_to_remove({e})
  /\ e.content # EngineText

C17_KeepOutputsKeepsEngineFiles ==
  fpc = "cleaned" =>
    IF wdir0 = <<>> THEN wdir = <<>>
    ELSE /\ wdir # <<>>
         /\ \A e \in wdir0[1] : IF C17_InputFile(e) THEN e \notin wdir[1] ELSE e \in wdir[1]
         /\ wdir[1] \subseteq wdir0[1]

\* C18: when the engine ran to an exit, validate_l3 passes exactly when (the
\* return code is 0 or a completion marker such as "Loop time" is in the output)
\* and the output shows no explosion ("Lost atoms" ... or a "Dangerous builds =
\* N" with N > 0) and the thermo sanity check passed.
C18_ShowsExplosion(out) ==
  out.lost \/ \E i \in 1..Len(out.dangerous) : out.dangerous[i] > 0

C18_PassCondition ==
  ppc = "l3_done" =>
    (verdict[1].passed <=>
       /\ subject.rc = 0 \/ subject.loop_time
       /\ ~C18_ShowsExplosion(subject)
       /\ check_thermo_sanity(parse_thermo_output(subject)).passed)

\* C19: if a row of the thermo table holds NaN or Inf as temperature, total
\* energy, potential energy or pressure, validate_l3 returns passed = False and
\* thermo_warnings holds a message naming that step and that quantity.
C19_Message(column) ==
  CASE column = "temp"   -> "Temperature is NaN/Inf"
    [] column = "etotal" -> "Total energy is NaN/Inf"
    [] column = "pe"     -> "Potential energy is NaN/Inf"
    [] column = "press"  -> "Pressure is NaN/Inf"

C19_NanInfFails ==
  ppc = "l3_done" =>
    \A i \in 1..Len(subject.rows), k \in 1..2 :
      IsNanInf(subject.rows[i].vals[k]) =>
        /\ ~verdict[1].passed
        /\ \E w \in 1..Len(verdict[1].thermo_warnings) :
             verdict[1].thermo_warnings[w] =
               Detail(C19_Message(subject.header[k + 1]), subject.rows[i].step)

\* C20: validate_l0 passes exactly when the text holds no {{NAME}} or <NAME>
\* placeholder; unresolved_count is the number of such placeholders; the
\* TODO:/FIXME:/XXX: markers (keyword followed by text) are listed in
\* placeholders_found and in details, one details line per hit, and do not
\* change passed or unresolved_count.
C20_Placeholders(lines) ==
  { <<l, i>> \in (1..Len(lines)) \X (1..3) :
      i <= Len(lines[l]) /\ lines[l][i] \in {"{{N}}", "<N>"} }

C20_MarkerLines(lines) ==
  { l \in 1..Len(lines) :
      Len(lines[l]) >= 2 /\ lines[l][1] \in {"TODO:", "fixme:", "XXX:"} }

C20_OnlyTemplatesBlock ==
  ppc = "l0_done" =>
    LET r == verdict[1] IN
      /\ r.passed <=> C20_Placeholders(subject) = {}
      /\ r.unresolved_count = Cardinality(C20_Placeholders(subject))
      /\ Len(r.details) = Len(r.placeholders_found)
      /\ Len(r.placeholders_found) =
           Cardinality(C20_Placeholders(subject)) + Cardinality(C20_MarkerLines(subject))
      /\ \A l \in C20_MarkerLines(subject) :
           \E i \in 1..Len(r.details) :
             /\ r.details[i].line = l /\ r.details[i].text = subject[l]
             /\ r.placeholders_found[i] = subject[l]

C20_Witness ==
  /\ ppc = "l0_done"
  /\ verdict[1].passed /\ verdict[1].unresolved_count = 0
  /\ Len(verdict[1].placeholders_found) = 2

\* C21: a script in which a "velocity ... create <T>" command or a thermostat
\* fix's "temp <start> <end>" clause carries a negative temperature fails L1
\* and has a "Negative temperature" entry in physics_warnings, whatever unit
\* system it declares.
C21_CarriesNegative ==
  \E i \in 1..Len(subject) :
    LET line == subject[i] IN
      /\ line # << >> /\ line[1] # "#"
      /\ \/ /\ Len(line) >= 4 /\ line[1] = "velocity" /\ line[3] = "create"
            /\ line[4] = "-1"
         \/ /\ line[1] = "fix"
            /\ \E k \in 1..Len(line) - 2 :
                 line[k] = "temp" /\ "-1" \in {line[k + 1], line[k + 2]}

C21_NegativeTemperatureFails ==
  (ppc = "l1_done" /\ C21_CarriesNegative)
    => /\ ~verdict[1].passed
       /\ \E i \in 1..Len(verdict[1].physics_warnings) :
            verdict[1].physics_warnings[i].kind = "Negative temperature"

\* C22: the engine output quoted in a fix prompt built after a validation in
\* which L2 or L3 failed is the last (at most) EXCERPT_LIMIT characters of the
\* stored engine output of the failing level, L2's if L2 failed, else L3's.
C22_Last(text, n) ==
  [text EXCEPT !.from = IF text.to - n > text.from THEN text.to - n ELSE text.from]

C22_Excerpt(v) ==
  LET r == IF ~v.l2.passed THEN v.l2 ELSE v.l3
  IN IF r.engine_output = <<>> THEN <<>>
     ELSE <<C22_Last(r.engine_output[1], EXCERPT_LIMIT)>>

C22_Step ==
  (gpc = "validating" /\ gpc' = "call_llm" /\ current_prompt'.kind = "fix"
    /\ (~validation'[1].l2.passed \/ ~validation'[1].l3.passed))
    => current_prompt'.lammps_output = C22_Excerpt(validation'[1])

C22_ExcerptIsTail == [][C22_Step]_vars

\* C23: parse_llm_response returns a (script, assumptions) pair without
\* raising for every response: no ```json block, a block that is not JSON, a
\* block of valid JSON of any shape.
C23_ParseNeverRaises ==
  ppc = "parse_done" => verdict[1].raised = << >>

\* C24: when some attempt of a run produced a non-empty script and an output
\* path was given, the returned result has output_path set and the file holds
\* the returned script, validation passed or not, unless the write failed.
C24_WriteFailed ==
  \E i \in 1..Len(errors) : errors[i].kind = "Failed to write output file"

C24_ScriptIsWritten ==
  ( /\ result # <<>>
    /\ inp.has_output_path
    /\ \E i \in 1..Len(attempts) : Truthy(attempts[i].deck_content)
    /\ ~C24_WriteFailed )
    => /\ result[1].output_path
       /\ Truthy(result[1].deck_content)
       /\ output_file = <<result[1].deck_content>>

\* C25: when "units" or "atom_style" occurs more than once, validate_l1
\* validates the argument list of the first occurrence, and the timestep and
\* temperature range checks use the unit system of the first "units" command.
C25_FirstArgs(lines, cmd) ==
  LET at == { i \in 1..Len(lines) : parse_command(lines[i]) # << >>
                                    /\ parse_command(lines[i])[1].cmd = cmd }
  IN IF at = {} THEN << >>
     ELSE << parse_command(lines[CHOOSE i \in at : \A k \in at : i <= k])[1].args >>

C25_FirstOccurrenceDecides ==
  ppc = "l1_done"
    => LET r == L1Lists(subject, C25_FirstArgs(subject, "units"),
                        C25_FirstArgs(subject, "atom_style"))
       IN /\ verdict[1].syntax_errors = r.syntax_errors
          /\ verdict[1].physics_warnings = r.physics_warnings

\* C26: the deck L3 executes has at least one run command and every run
\* command in it is "run <steps>"; every thermo command in it is "thermo 5";
\* it has both the "thermo_style custom step temp press pe ke etotal" line and
\* a "thermo 5" line; and when the original had no thermo command the two are
\* inserted, in this order, immediately before the first run or fix command
\* (which is the appended run when the original had neither).
C26_IsCommand(line, cmd) == DeckCommand(line) = << cmd >>

C26_InsertedBeforeFirstRunOrFix(deck) ==
  \E k \in 1..Len(deck) - 2 :
    /\ deck[k] = THERMO_STYLE_LINE
    /\ deck[k + 1] = THERMO_LINE
    /\ C26_IsCommand(deck[k + 2], "run") \/ C26_IsCommand(deck[k + 2], "fix")
    /\ \A j \in 1..k - 1 : ~C26_IsCommand(deck[j], "run") /\ ~C26_IsCommand(deck[j], "fix")

C26_MinimalDeck ==
  ppc = "deck_done"
    => LET deck == verdict[1] IN
       /\ \E i \in 1..Len(deck) : C26_IsCommand(deck[i], "run")
       /\ \A i \in 1..Len(deck) :
            C26_IsCommand(deck[i], "run") => deck[i] = <<"run", ToString(subject.steps)>>
       /\ \A i \in 1..Len(deck) : C26_IsCommand(deck[i], "thermo") => deck[i] = THERMO_LINE
       /\ \E i \in 1..Len(deck) : deck[i] = THERMO_STYLE_LINE
       /\ \E i \in 1..Len(deck) : deck[i] = THERMO_LINE
       /\ (\A i \in 1..Len(subject.lines) : ~C26_IsCommand(subject.lines[i], "thermo"))
            => C26_InsertedBeforeFirstRunOrFix(deck)

\* C27: one call of create_message makes at most MAX_RETRIES API calls; it
\* returns the text of the first successful call and calls no more; it sleeps
\* 1s, then 2s, between failed calls and not after the last; after the third
\* rate-limit or status failure it raises the last error; and one generate_deck
\* makes at most MAX_RETRIES * max_attempts API calls.
C27_Failures ==
  Cardinality({ i \in 1..Len(api_log) : api_log[i].error \in RetryableErrors })

C28_ValidationIsOfReturnedDeck ==
  (result # <<>> /\ result[1].validation # <<>>)
    => /\ result[1].attempts # <<>>
       /\ LET last == result[1].attempts[Len(result[1].attempts)]
          IN /\ last.validation_passed = result[1].validation[1].overall_passed
             /\ result[1].deck_content = last.deck_content

\* C29: in every returned result an attempt with validation_passed = true is
\* the last element of attempts; attempt_number is strictly increasing along
\* attempts and lies in 1..max_attempts; and success is true exactly when
\* attempts is non-empty and its last element has validation_passed = true.
C29_AttemptsWellFormed ==
  result # <<>>
    => LET atts == result[1].attempts IN
       /\ \A i \in 1..Len(atts) : atts[i].validation_passed => i = Len(atts)
       /\ \A i \in 1..Len(atts) : atts[i].attempt_number \in 1..max_attempts(inp)
       /\ \A i \in 1..Len(atts) - 1 : atts[i].attempt_number < atts[i + 1].attempt_number
       /\ result[1].success <=> (atts # <<>> /\ atts[Len(atts)].validation_passed)

C29_Witness ==
  /\ result # <<>>
  /\ result[1].success
  /\ Len(result[1].attempts) = 2
  /\ ~result[1].attempts[1].validation_passed
  /\ result[1].attempts[2].validation_passed

\* C30: setup_working_directory creates or modifies files only inside
\* working_dir, whatever the script's file references (absolute paths and
\* relative paths with ".." components included) and context files.
C30_Inside(path) ==
  /\ ~is_absolute(path)
  /\ \A n \in 1..Len(path) :
       Cardinality({ i \in 1..n : path[i] = ".." })
         <= Cardinality({ i \in 1..n : path[i] # ".." })
  /\ path[Len(path)] # ".."

C30_WritesStayInside ==
  (fpc \in {"refs", "set_up"} /\ wdir # <<>>)
    => \A e \in wdir[1] : C30_Inside(e.path)

====
